---- MODULE Spec2Model ----
(***************************************************************************)
(* Model of gymnarium_visualisers_piston (src/src/lib.rs): the visualiser  *)
(* handle (PistonVisualiser), its render thread (thread_function), the     *)
(* shared mailbox latest_data and the shared input queue                   *)
(* (PistonVisualiserInputProvider).                                        *)
(***************************************************************************)
EXTENDS Integers, Sequences, FiniteSets, TLC

(* ---------------- bounds of the model ---------------- *)

\* number of render_two_dimensional calls the producer makes
MaxRenders == 2
\* number of native input events the backend delivers
MaxInputs == 3
\* number of close() calls the producer makes
MaxCloses == 2
\* the count of events handled after a close request saturates here
MaxEventsSeen == 2

(* ---------------- values ---------------- *)

\* Option<T>: None is the empty sequence, Some(x) a one-element sequence
None == <<>>
Some(x) == <<x>>

\* PistonVisualiser::window_viewport: centre zero, size 2 x 2
WindowViewport == [center |-> <<0, 0>>, size |-> <<2, 2>>]

\* a viewport preference an environment may state: size 4 x 2
WideViewport == [center |-> <<0, 0>>, size |-> <<4, 2>>]

\* geometries as the scene source hands them out (empty transformation chain)
PointG == [kind |-> "Point", transformations |-> <<>>]
ImageG == [kind |-> "Image", transformations |-> <<>>]

\* Geometry2D::transform(from, to): the conversion between the two viewports
\* is appended to the geometry's chain of transformations
GeometryTransform(g, from, to) ==
    [g EXCEPT !.transformations = Append(@, <<from, to>>)]

\* what a scene source answers to draw_two_dimensional, preferred_view and
\* preferred_background_color; ok = FALSE is a failing draw_two_dimensional
EnvEmpty == [ok |-> TRUE, draw |-> <<>>, view |-> None, bg |-> None]
EnvPoint == [ok |-> TRUE, draw |-> <<PointG>>, view |-> None, bg |-> None]
EnvImage == [ok |-> TRUE, draw |-> <<ImageG, PointG>>,
             view |-> Some(<<WideViewport, "KeepAspectRatioAndScissorRemains">>),
             bg |-> Some("black")]
EnvFail == [ok |-> FALSE, draw |-> <<>>, view |-> None, bg |-> None]
EnvOutputs == {EnvEmpty, EnvPoint, EnvImage, EnvFail}

\* the tuple run() puts into latest_data, and unwrap_or_default's tuple
EmptyTuple == [geoms |-> <<>>, view |-> None, bg |-> None]

\* the tuple render_two_dimensional builds from a scene source's answers:
\* every geometry is transformed from the preferred viewport (the window
\* viewport when there is no preference) to the window viewport
PrefViewport(view) == IF view # None THEN view[1][1] ELSE WindowViewport
NewTuple(e) ==
    [geoms |-> [i \in 1..Len(e.draw) |->
                   GeometryTransform(e.draw[i], PrefViewport(e.view), WindowViewport)],
     view |-> e.view,
     bg |-> e.bg]

\* native input events of the backend (piston_window::Input)
NativeInputs == {[variant |-> "piston_window::Input::Text", arg |-> "a"],
                 [variant |-> "piston_window::Input::Focus", arg |-> "true"]}

\* PistonVisualiser::map_piston_input_to: the one-to-one translation table
map_piston_input_to(piston_input) ==
    CASE piston_input.variant = "piston_window::Input::Text" ->
            [variant |-> "Input::Text", arg |-> piston_input.arg]
      [] piston_input.variant = "piston_window::Input::Focus" ->
            [variant |-> "Input::Focus", arg |-> piston_input.arg]

\* faulty variant: every scene counts as one that loads textures
HasImageAlways(geoms) == TRUE

\* whether a scene holds a top-level Image node (update_texture_buffer)
HasImage(geoms) == \E i \in 1..Len(geoms) : geoms[i].kind = "Image"

(* ---------------- scenes with textures and groups ---------------- *)

\* the default lease a texture starts with: TextureBuffer::new(180)
StartingUses == 180
\* the use counters of the model stay at or below this
MaxCounter == 182
\* the counts of frames drawn and of decrease_and_drop calls saturate here
MaxFramesCounted == 3

\* texture sources (TextureSource::Path)
TextureSources == {"a.png", "b.png"}

\* further geometries: a Line, an Image with its texture source, and
\* Geometry2D::Group(geometries)
LineG == [kind |-> "Line", transformations |-> <<>>]
ImageOf(texture_source) ==
    [kind |-> "Image", texture_source |-> texture_source, transformations |-> <<>>]
GroupOf(geometries) == [kind |-> "Group", geometries |-> geometries]

\* the scenes the render thread may hold over its frames
FrameScenes ==
    {<<>>, <<ImageOf("a.png")>>, <<ImageOf("b.png")>>,
     <<ImageOf("a.png"), ImageOf("b.png")>>, <<ImageOf("a.png"), ImageOf("a.png")>>,
     <<GroupOf(<<ImageOf("a.png")>>)>>}
\* sources that the scenes of a run name in one frame only
OnceSources == {"b.png"}

\* piston_window::DrawState::default() and DrawState::default().scissor(rect)
DefaultDrawState == [scissor |-> None]
ScissorDrawState(rect) == [scissor |-> Some(rect)]

\* Transformation2D::identity()
Identity == [kind |-> "identity"]

\* one draw call on the graphics backend; texture is "" when none is used
DrawCall(prim, draw_state, transformations, texture) ==
    [prim |-> prim, draw_state |-> draw_state, transformations |-> transformations,
     texture |-> texture]

(* ---------------- TextureBuffer ---------------- *)

Max(a, b) == IF a > b THEN a ELSE b
Min(a, b) == IF a < b THEN a ELSE b

\* TextureBuffer::new
TextureBufferNew(starting_uses) ==
    [starting_uses |-> Max(starting_uses, 1),
     buffered_textures |-> [s \in {} |-> 0]]

\* TextureBuffer::get: Some when the source has an entry
TextureBufferGet(tb, texture_source) ==
    IF texture_source \in DOMAIN tb.buffered_textures THEN Some(texture_source) ELSE None

\* faulty variant: a use of a buffered texture is not counted
MarkUseForgotten(counter) == counter
\* (*counter) += 1
MarkUse(counter) == counter + 1

\* faulty variant: no source is ever found in the buffer
contains_key_missed(tb, texture_source) == FALSE

\* self.buffered_textures.contains_key(&texture_source)
contains_key(tb, texture_source) == texture_source \in DOMAIN tb.buffered_textures

\* faulty variant: a use of a buffered texture puts its counter back to
\* starting_uses
load_or_mark_use_rearmed(tb, texture_source) ==
    [tb EXCEPT !.buffered_textures =
        [s \in (DOMAIN @) \cup {texture_source} |->
            IF s = texture_source THEN tb.starting_uses ELSE @[s]]]
\* TextureBuffer::load_or_mark_use, when loading the texture succeeds
load_or_mark_use(tb, texture_source) ==
    IF contains_key(tb, texture_source)
    THEN [tb EXCEPT !.buffered_textures[texture_source] = MarkUse(@)]
    ELSE [tb EXCEPT !.buffered_textures =
             [s \in (DOMAIN @) \cup {texture_source} |->
                 IF s = texture_source THEN tb.starting_uses ELSE @[s]]]

\* faulty variant: a counter goes down by two
DecreasedByTwo(counter) == IF counter > 1 THEN counter - 2 ELSE 0

\* the closure of decrease_and_drop's for_each: a counter above zero goes
\* down by one
Decreased(counter) == IF counter > 0 THEN counter - 1 ELSE counter

\* faulty variant: entries are dropped one call early
decrease_and_drop_early(tb) ==
    LET dec == [s \in DOMAIN tb.buffered_textures |->
                   IF tb.buffered_textures[s] > 0 THEN tb.buffered_textures[s] - 1 ELSE 0]
    IN  [tb EXCEPT !.buffered_textures = [s \in {x \in DOMAIN dec : dec[x] > 1} |-> dec[s]]]
\* TextureBuffer::decrease_and_drop: every counter above zero goes down by
\* one, then the entries at zero are removed
decrease_and_drop(tb) ==
    LET dec == [s \in DOMAIN tb.buffered_textures |-> Decreased(tb.buffered_textures[s])]
    IN  [tb EXCEPT !.buffered_textures = [s \in {x \in DOMAIN dec : dec[x] # 0} |-> dec[s]]]

\* the texture sources of the top-level Image nodes, in scene order: the
\* nodes update_texture_buffer hands to load_or_mark_use
RECURSIVE TopLevelSources(_)
TopLevelSources(geometry_2ds) ==
    IF geometry_2ds = <<>> THEN <<>>
    ELSE (IF Head(geometry_2ds).kind = "Image"
          THEN <<Head(geometry_2ds).texture_source>> ELSE <<>>)
         \o TopLevelSources(Tail(geometry_2ds))

\* faulty variant: a source named by several Image nodes is marked once
MarkAllOnce(tb, sources) ==
    LET named == {sources[i] : i \in 1..Len(sources)}
        old == tb.buffered_textures
    IN  [tb EXCEPT !.buffered_textures =
            [s \in (DOMAIN old) \cup named |->
                IF s \notin named THEN old[s]
                ELSE IF s \in DOMAIN old THEN old[s] + 1 ELSE tb.starting_uses]]

\* PistonVisualiser::update_texture_buffer, when every load succeeds
RECURSIVE MarkAll(_, _)
MarkAll(tb, sources) ==
    IF sources = <<>> THEN tb
    ELSE MarkAll(load_or_mark_use(tb, Head(sources)), Tail(sources))
update_texture_buffer(tb, geometry_2ds) == MarkAll(tb, TopLevelSources(geometry_2ds))

(* ---------------- drawing ---------------- *)

\* Geometry2D::append_transformation: the transformation is appended to the
\* chain of a leaf and, through a Group, to the chain of every leaf below it
RECURSIVE append_transformation(_, _)
append_transformation(geometry_2d, transformation) ==
    IF geometry_2d.kind = "Group"
    THEN GroupOf([i \in 1..Len(geometry_2d.geometries) |->
                     append_transformation(geometry_2d.geometries[i], transformation)])
    ELSE [geometry_2d EXCEPT !.transformations = Append(@, transformation)]

\* faulty variant: a Group draws its children last to first
RECURSIVE render_geometry_2d_reversed(_, _, _)
render_geometry_2d_reversed(draw_state, geometry_2d, tb) ==
    CASE geometry_2d.kind = "Point" ->
            <<DrawCall("ellipse", DefaultDrawState, geometry_2d.transformations, "")>>
      [] geometry_2d.kind = "Line" ->
            <<DrawCall("line", draw_state, geometry_2d.transformations, "")>>
      [] geometry_2d.kind = "Image" ->
            IF TextureBufferGet(tb, geometry_2d.texture_source) # None
            THEN <<DrawCall("image", draw_state, geometry_2d.transformations,
                            geometry_2d.texture_source)>>
            ELSE <<DrawCall("panic", draw_state, geometry_2d.transformations,
                            geometry_2d.texture_source)>>
      [] geometry_2d.kind = "Group" ->
            LET RECURSIVE Children(_)
                Children(i) ==
                    IF i = 0 THEN <<>>
                    ELSE render_geometry_2d_reversed(draw_state, geometry_2d.geometries[i], tb)
                         \o Children(i - 1)
            IN  Children(Len(geometry_2d.geometries))
\* PistonVisualiser::render_geometry_2d: the draw calls of one geometry, in
\* order; a Point is drawn with the default draw state, an Image whose
\* texture is not buffered panics (unwrap of get), a Group draws its children
\* in order with the draw state it was given
RECURSIVE render_geometry_2d(_, _, _)
render_geometry_2d(draw_state, geometry_2d, tb) ==
    CASE geometry_2d.kind = "Point" ->
            <<DrawCall("ellipse", DefaultDrawState, geometry_2d.transformations, "")>>
      [] geometry_2d.kind = "Line" ->
            <<DrawCall("line", draw_state, geometry_2d.transformations, "")>>
      [] geometry_2d.kind = "Image" ->
            IF TextureBufferGet(tb, geometry_2d.texture_source) # None
            THEN <<DrawCall("image", draw_state, geometry_2d.transformations,
                            geometry_2d.texture_source)>>
            ELSE <<DrawCall("panic", draw_state, geometry_2d.transformations,
                            geometry_2d.texture_source)>>
      [] geometry_2d.kind = "Group" ->
            LET RECURSIVE Children(_)
                Children(i) ==
                    IF i > Len(geometry_2d.geometries) THEN <<>>
                    ELSE render_geometry_2d(draw_state, geometry_2d.geometries[i], tb)
                         \o Children(i + 1)
            IN  Children(1)

\* the draw calls made before the first panic, the panic included
RECURSIVE UpToPanic(_)
UpToPanic(draws) ==
    IF draws = <<>> THEN <<>>
    ELSE IF Head(draws).prim = "panic" THEN <<Head(draws)>>
    ELSE <<Head(draws)>> \o UpToPanic(Tail(draws))

\* the loop of PistonVisualiser::render over the top-level geometries, each
\* with the transformation appended
RECURSIVE RenderAll(_, _, _, _)
RenderAll(draw_state, transformation, geometry_2ds, tb) ==
    IF geometry_2ds = <<>> THEN <<>>
    ELSE render_geometry_2d(draw_state,
                            append_transformation(Head(geometry_2ds), transformation), tb)
         \o RenderAll(draw_state, transformation, Tail(geometry_2ds), tb)

\* whether a run of draw calls ended in a panic
Panicked(draws) == draws # <<>> /\ draws[Len(draws)].prim = "panic"

(* ---------------- f64 arithmetic ---------------- *)

\* where a cast from f64 to u32 saturates: the largest integer of the
\* model stands for u32::MAX, every finite value of the model is far below both
SaturatedU32 == 2147483647

\* an f64 as an exact fraction n/d with d >= 0: d = 0 is +infinity (n > 0),
\* -infinity (n < 0) or NaN (n = 0). Rounding is left out and zero has no sign
RECURSIVE GCD(_, _)
GCD(a, b) == IF b = 0 THEN a ELSE GCD(b, a % b)
Abs(a) == IF a < 0 THEN -a ELSE a
Sign(a) == IF a > 0 THEN 1 ELSE IF a < 0 THEN -1 ELSE 0
Frac(n, d) ==
    IF d = 0 THEN [n |-> Sign(n), d |-> 0]
    ELSE LET g == GCD(Abs(n), Abs(d))
         IN  [n |-> Sign(d) * (n \div g), d |-> Abs(d) \div g]
Num(i) == [n |-> i, d |-> 1]

\* the f64 operators /, *, - and >
FDiv(x, y) == Frac(x.n * y.d, x.d * y.n)
FMul(x, y) == Frac(x.n * y.n, x.d * y.d)
FSub(x, y) == Frac(x.n * y.d - y.n * x.d, x.d * y.d)
FGt(x, y) ==
    IF x.d = 0 /\ y.d = 0 THEN x.n > 0 /\ y.n < 0
    ELSE x.n * y.d > y.n * x.d
IsFinite(x) == x.d # 0

\* `as u32` of an f64: the fraction is cut off, NaN and negative values
\* become 0, values above u32::MAX become u32::MAX
AsU32(x) ==
    IF x.d = 0 THEN (IF x.n > 0 THEN SaturatedU32 ELSE 0)
    ELSE IF x.n <= 0 THEN 0
    ELSE Min(x.n \div x.d, SaturatedU32)

(* ---------------- the view of PistonVisualiser::render ---------------- *)

\* Position2D::vector_to
vector_to(from, to) == <<to[1] - from[1], to[2] - from[2]>>

\* Transformation2D::translation, ::scale and ::composition
Translation(v) == [kind |-> "translation", x |-> Num(v[1]), y |-> Num(v[2])]
Scale(x, y) == [kind |-> "scale", x |-> x, y |-> y]
Composition(name, parts) == [kind |-> "composition", name |-> name, parts |-> parts]

\* Viewport2DModification
KeepAspectMods == {"KeepAspectRatio", "KeepAspectRatioAndScissorRemains"}
ViewportMods == {"LooseAspectRatio"} \cup KeepAspectMods

\* faulty variant: the height always fills the surface
FitToHeightOnly(size, ctx_vp_rect) ==
    [w |-> FMul(FDiv(Num(size[1]), Num(size[2])), Num(ctx_vp_rect[4])),
     h |-> Num(ctx_vp_rect[4]),
     zero_division |-> size[2] = 0]
\* render: the size (w, h) the viewport of the given size takes on the
\* surface ctx_vp_rect = [x, y, width, height], and whether a division had a
\* zero divisor
KeepAspectFit(size, ctx_vp_rect) ==
    LET h == Num(ctx_vp_rect[4])
        w == FMul(FDiv(Num(size[1]), Num(size[2])), h)
    IN  IF FGt(w, Num(ctx_vp_rect[3]))
        THEN [w |-> Num(ctx_vp_rect[3]),
              h |-> FMul(FDiv(Num(size[2]), Num(size[1])), Num(ctx_vp_rect[3])),
              zero_division |-> size[2] = 0 \/ size[1] = 0]
        ELSE [w |-> w, h |-> h, zero_division |-> size[2] = 0]

\* render: the transformation of the two aspect-keeping modifications
KeepAspectTransformation(fit, ctx_vp_rect) ==
    Composition("KeepAspectRatio",
        <<Translation(vector_to(WindowViewport.center, <<0, 0>>)),
          Scale(FDiv(fit.w, Num(ctx_vp_rect[3])), FDiv(fit.h, Num(ctx_vp_rect[4]))),
          Translation(vector_to(<<0, 0>>, WindowViewport.center))>>)

\* faulty variant: the scissor rectangle starts at the corner of the surface
ScissorAtCorner(fit, ctx_vp_rect) == <<0, 0, AsU32(fit.w), AsU32(fit.h)>>
\* render: the scissor rectangle of KeepAspectRatioAndScissorRemains
Scissor(fit, ctx_vp_rect) ==
    <<AsU32(FDiv(FSub(Num(ctx_vp_rect[3]), fit.w), Num(2))),
      AsU32(FDiv(FSub(Num(ctx_vp_rect[4]), fit.h), Num(2))),
      AsU32(fit.w),
      AsU32(fit.h)>>

\* the result of the view computation when nothing is fitted
NoFit == [w |-> Num(0), h |-> Num(0), zero_division |-> FALSE]

\* faulty variant: both aspect-keeping modifications clip
ViewOfRenderAlwaysClips(preferred_view, ctx_vp_rect) ==
    IF preferred_view # None /\ preferred_view[1][2] \in KeepAspectMods
    THEN LET fit == KeepAspectFit(preferred_view[1][1].size, ctx_vp_rect)
         IN  [fit |-> fit, draw_state |-> ScissorDrawState(Scissor(fit, ctx_vp_rect)),
              transform |-> KeepAspectTransformation(fit, ctx_vp_rect)]
    ELSE [fit |-> NoFit, draw_state |-> DefaultDrawState, transform |-> Identity]
\* render: the draw state and the transformation chosen from preferred_view
ViewOfRender(preferred_view, ctx_vp_rect) ==
    IF preferred_view # None
    THEN LET viewport == preferred_view[1][1]
             viewport_mod == preferred_view[1][2]
         IN  IF viewport_mod = "LooseAspectRatio"
             THEN [fit |-> NoFit, draw_state |-> DefaultDrawState, transform |-> Identity]
             ELSE LET fit == KeepAspectFit(viewport.size, ctx_vp_rect)
                  IN  [fit |-> fit,
                       draw_state |->
                           IF viewport_mod = "KeepAspectRatioAndScissorRemains"
                           THEN ScissorDrawState(Scissor(fit, ctx_vp_rect))
                           ELSE DefaultDrawState,
                       transform |-> KeepAspectTransformation(fit, ctx_vp_rect)]
    ELSE [fit |-> NoFit, draw_state |-> DefaultDrawState, transform |-> Identity]

\* the arguments of the render calls of the model: viewport sizes (zero and
\* negative ones among them), surfaces, scenes and texture buffers
ViewSizes == {-4, 0, 2, 3, 4}
SurfaceSizes == {400, 600, 800}
PreferredViews ==
    {None} \cup {Some(<<[center |-> <<0, 0>>, size |-> <<vw, vh>>], viewport_mod>>) :
                    vw \in ViewSizes, vh \in ViewSizes, viewport_mod \in ViewportMods}
SurfaceRects == {<<0, 0, sw, sh>> : sw \in SurfaceSizes, sh \in SurfaceSizes}
NestedScene == <<GroupOf(<<PointG, GroupOf(<<LineG>>), GroupOf(<<>>)>>)>>
RenderScenes ==
    {<<>>, <<LineG, PointG>>, <<GroupOf(<<>>)>>, NestedScene,
     <<LineG, GroupOf(<<ImageOf("a.png"), GroupOf(<<PointG, LineG>>)>>), PointG>>}
RenderBuffers ==
    {[starting_uses |-> StartingUses, buffered_textures |-> [s \in S |-> StartingUses]] :
        S \in {{}, {"a.png"}}}

(* ---------------- state ---------------- *)

VARIABLES
    \* --- shared between the handle and the render thread
    latest_data,      \* Arc<Mutex<Option<PistonVisualiserSyncedData>>>: None or Some(tuple)
    mailbox_owner,    \* who holds the latest_data mutex: "none", "handle"
    close_requested,  \* Arc<AtomicBool>
    closed,           \* the AtomicBool behind arc1_closed
    closed_alive,     \* whether the Arc of closed still exists (Weak::upgrade succeeds)
    input_queue,      \* Arc<Mutex<VecDeque<Input>>>
    \* --- the handle (PistonVisualiser)
    h_pc,             \* "idle", "r_lock", "r_write", "join"
    join_handle,      \* Option<JoinHandle>: TRUE when Some
    last_tuple,       \* last_geometries_2d, last_preferred_view, last_preferred_background_color
    new_tuple,        \* the tuple of the render call in progress
    \* --- the render thread (thread_function)
    rt_pc,            \* "build", "drain", "next", "check", "take", "store_closed", "return",
                      \* "finished", "panicked"
    local_tuple,      \* geometry_2ds, preferred_view, background_color
    should_close,     \* window.set_should_close
    \* --- observations (history of the run, not program state)
    h_ret,            \* the last return value of a handle call
    q_ret,            \* the last input-provider call: operation, queue before and after, value returned
    n_renders,        \* render_two_dimensional calls made
    calls,            \* the last two of them: output of the scene source, last_tuple before
                      \* the call, whether the call wrote the slot
    published,        \* the tuples written into latest_data, in order (run()'s first)
    slot_idx,         \* index in published of the tuple in the slot, 0 when empty
    taken_idx,        \* indices in published of the tuples the render thread took, in order
    drawn,            \* Some(tuple the last frame drew), None before any frame
    n_closes,         \* close() calls made
    close_rets,       \* what the close() calls returned, in order
    n_joins,          \* joins of the render thread performed
    n_inputs,         \* native input events delivered
    pushed,           \* inputs pushed into the queue, in order
    popped,           \* inputs returned by pop and pop_all, in order
    cleared,          \* whether clear was called
    events_after_close, \* events handled since close() set close_requested
    \* --- the render thread's texture buffer, frame by frame
    texture_buffer,   \* TextureBuffer::buffered_textures: texture source -> use counter
    tex_refs,         \* per source: load_or_mark_use calls so far, counted up to 2
    tex_decays,       \* per source with one such call: decrease_and_drop calls since
    tex_always,       \* per source: a top-level Image of every frame so far named it
    frame_obs,        \* the last frame: how it ended, the sources looked up unprimed
    \* --- one call of PistonVisualiser::render
    render_out,       \* its arguments, the fit it computed and what it drew
    \* --- the events of the render loop and the locks
    event_obs,        \* the last event handled: its kind, the calls its handler made,
                      \* and the frames drawn and decrease_and_drop calls counted so far
    locks,            \* who holds the latest_data mutex and the input queue mutex
    lk_pc             \* where the producer, a consumer and the render thread stand
                      \* between their lock operations

shared == <<latest_data, mailbox_owner, close_requested, closed, closed_alive, input_queue>>
handle == <<h_pc, join_handle, last_tuple, new_tuple>>
thread == <<rt_pc, local_tuple, should_close>>
obs_mailbox == <<n_renders, calls, published, slot_idx, taken_idx, drawn>>
obs_queue == <<q_ret, n_inputs, pushed, popped, cleared>>
obs_close == <<n_closes, close_rets, n_joins, events_after_close>>
run_vars == <<shared, handle, thread, h_ret, obs_mailbox, obs_queue, obs_close>>
frame_vars == <<texture_buffer, tex_refs, tex_decays, tex_always, frame_obs, render_out>>
loop_vars == <<event_obs, locks, lk_pc>>
vars == <<run_vars, frame_vars, loop_vars>>

\* PistonVisualiser::run: the state when run() has returned and the thread
\* was spawned
Init ==
    /\ latest_data = Some(EmptyTuple)
    /\ mailbox_owner = "none"
    /\ close_requested = FALSE
    /\ closed = FALSE
    /\ closed_alive = TRUE
    /\ input_queue = <<>>
    /\ h_pc = "idle"
    /\ join_handle = TRUE
    /\ last_tuple = EmptyTuple
    /\ new_tuple = EmptyTuple
    /\ rt_pc = "build"
    /\ local_tuple = EmptyTuple
    /\ should_close = FALSE
    /\ h_ret = [op |-> "run", val |-> "Ok", seen |-> <<>>]
    /\ q_ret = [op |-> "none", before |-> <<>>, after |-> <<>>, val |-> <<>>]
    /\ n_renders = 0
    /\ calls = <<>>
    /\ published = <<EmptyTuple>>
    /\ slot_idx = 1
    /\ taken_idx = <<>>
    /\ drawn = None
    /\ n_closes = 0
    /\ close_rets = <<>>
    /\ n_joins = 0
    /\ n_inputs = 0
    /\ pushed = <<>>
    /\ popped = <<>>
    /\ cleared = FALSE
    /\ events_after_close = 0
    /\ texture_buffer = TextureBufferNew(StartingUses)
    /\ tex_refs = [s \in TextureSources |-> 0]
    /\ tex_decays = [s \in TextureSources |-> 0]
    /\ tex_always = [s \in TextureSources |-> TRUE]
    /\ frame_obs = [result |-> "none", unprimed |-> {}, mark |-> None,
                    uses |-> [s \in TextureSources |-> 0],
                    loaded |-> [s \in TextureSources |-> 0]]
    /\ event_obs = [event |-> "none", ops |-> <<>>, frames |-> 0, decays |-> 0]
    /\ locks = [mailbox |-> "none", queue |-> "none"]
    /\ lk_pc = [producer |-> "idle", consumer |-> "idle", thread |-> "build"]
    /\ render_out = [result |-> "none"]

(* ---------------- the handle: render_two_dimensional ---------------- *)

\* faulty variant: only the background colours are compared
NeedsPublishBackgroundOnly(t, last) == t.bg # last.bg

\* the dedup comparison: any of the three parts differs from the last
\* published ones
NeedsPublish(t, last) ==
    t.geoms # last.geoms \/ t.view # last.view \/ t.bg # last.bg

\* faulty variant: an unread tuple is kept, the new one is dropped
PublishKeepUnread(slot, t) == IF slot # None THEN slot ELSE Some(t)

\* the value render_two_dimensional stores into the locked slot
PublishValue(slot, t) == Some(t)

\* faulty variant: the handle forgets to remember what it published
RememberLastStale(last, t) == last

\* the last published tuple the handle remembers after a publish
RememberLast(last, t) == t

Ret(op, val) == [op |-> op, val |-> val, seen |-> <<>>]

\* the record of render calls keeps the last two
LastTwo(cs) == IF Len(cs) > 2 THEN Tail(cs) ELSE cs

\* faulty variant: the error of the scene source is dropped and the call
\* goes on with what it has
SourceErrorIgnored(e) == FALSE
\* drawable_environment.draw_two_dimensional()?: the early return with the
\* error of the scene source
SourceFailed(e) == ~e.ok

\* render_two_dimensional, up to the comparison with the last published
\* tuple: a failing scene source returns its error, an equal tuple returns
\* Ok, a different tuple goes on to lock latest_data
RenderCall(e) ==
    /\ h_pc = "idle"
    /\ n_renders < MaxRenders
    /\ n_renders' = n_renders + 1
    /\ calls' = LastTwo(Append(calls, [out |-> e, before |-> last_tuple, wrote |-> FALSE]))
    /\ IF SourceFailed(e)
         THEN /\ h_ret' = Ret("render", "RenderingEnvironmentError")
              /\ UNCHANGED <<h_pc, new_tuple>>
         ELSE IF NeedsPublish(NewTuple(e), last_tuple)
         THEN /\ h_pc' = "r_lock"
              /\ new_tuple' = NewTuple(e)
              /\ UNCHANGED h_ret
         ELSE /\ h_ret' = Ret("render", "Ok")
              /\ UNCHANGED <<h_pc, new_tuple>>
    /\ UNCHANGED <<frame_vars, loop_vars, shared, join_handle, last_tuple, thread, published, slot_idx,
                   taken_idx, drawn, obs_queue, obs_close>>

\* self.latest_data.lock(): waits until the mutex is free
RenderLock ==
    /\ h_pc = "r_lock"
    /\ mailbox_owner = "none"
    /\ mailbox_owner' = "handle"
    /\ h_pc' = "r_write"
    /\ UNCHANGED <<frame_vars, loop_vars, latest_data, close_requested, closed, closed_alive, input_queue,
                   join_handle, last_tuple, new_tuple, thread, h_ret, obs_mailbox,
                   obs_queue, obs_close>>

\* faulty variant: the guard outlives the call
DropGuardLeaked(owner) == owner

\* the MutexGuard of latest_data goes out of scope: the mutex is free
DropGuard(owner) == "none"

\* the body of the critical section: the slot is overwritten, the last
\* published tuple is remembered, the guard is dropped and Ok returned
RenderPublish ==
    /\ h_pc = "r_write"
    /\ latest_data' = PublishValue(latest_data, new_tuple)
    /\ last_tuple' = RememberLast(last_tuple, new_tuple)
    /\ mailbox_owner' = DropGuard(mailbox_owner)
    /\ h_pc' = "idle"
    /\ h_ret' = Ret("render", "Ok")
    /\ published' = Append(published, new_tuple)
    /\ slot_idx' = Len(published) + 1
    /\ calls' = [calls EXCEPT ![Len(calls)].wrote = TRUE]
    /\ UNCHANGED <<frame_vars, loop_vars, close_requested, closed, closed_alive, input_queue, join_handle,
                   new_tuple, thread, n_renders, taken_idx, drawn, obs_queue, obs_close>>

(* ---------------- the handle: close and is_open ---------------- *)

\* faulty variant: the join error is swallowed
JoinResultSwallowed(pc) == "Ok"

\* what jh.join() maps to: a panicked thread is reported
JoinResult(pc) ==
    IF pc = "panicked" THEN "CloseCouldNotJoinRenderThread" ELSE "Ok"

\* faulty variant: the join handle is looked at, not taken
TakeJoinHandleKept(jh) == jh

\* self.join_handle.take(): what it leaves in the handle
TakeJoinHandle(jh) == FALSE

\* close(): with a join handle, take it, set close_requested and go to join;
\* without one, return Ok
CloseCall ==
    /\ h_pc = "idle"
    /\ n_closes < MaxCloses
    /\ n_closes' = n_closes + 1
    /\ IF join_handle
         THEN /\ join_handle' = TakeJoinHandle(join_handle)
              /\ close_requested' = TRUE
              /\ h_pc' = "join"
              /\ UNCHANGED <<h_ret, close_rets>>
         ELSE /\ h_ret' = Ret("close", "Ok")
              /\ close_rets' = Append(close_rets, "Ok")
              /\ UNCHANGED <<join_handle, close_requested, h_pc>>
    /\ UNCHANGED <<frame_vars, loop_vars, latest_data, mailbox_owner, closed, closed_alive, input_queue,
                   last_tuple, new_tuple, thread, obs_mailbox, obs_queue, n_joins,
                   events_after_close>>

\* jh.join() returns once the render thread has ended
CloseJoin ==
    /\ h_pc = "join"
    /\ rt_pc \in {"finished", "panicked"}
    /\ h_ret' = Ret("close", JoinResult(rt_pc))
    /\ close_rets' = Append(close_rets, JoinResult(rt_pc))
    /\ n_joins' = n_joins + 1
    /\ h_pc' = "idle"
    /\ UNCHANGED <<frame_vars, loop_vars, shared, join_handle, last_tuple, new_tuple, thread, obs_mailbox,
                   obs_queue, n_closes, events_after_close>>

\* faulty variant: a flag that is gone counts as open
IsOpenGoneIsOpen(alive, flag) == IF alive THEN ~flag ELSE TRUE

\* is_open(): upgrade the weak reference and read the flag
IsOpen(alive, flag) == IF alive THEN ~flag ELSE FALSE

IsOpenCall ==
    /\ h_pc = "idle"
    /\ h_ret' = [op |-> "is_open",
                 val |-> IF IsOpen(closed_alive, closed) THEN "true" ELSE "false",
                 seen |-> <<closed_alive, closed>>]
    /\ UNCHANGED <<frame_vars, loop_vars, shared, handle, thread, obs_mailbox, obs_queue, obs_close>>

(* ---------------- the input provider ---------------- *)

\* each operation locks input_queue for the length of one expression; it
\* yields the queue it leaves and the value it returns
\* faulty variant: the input is put at the front
push_front(q, input) == <<input>> \o q
push_back(q, input) == Append(q, input)
clear(q) == [queue |-> <<>>, val |-> <<>>]
peek(q) == [queue |-> q, val |-> IF q = <<>> THEN None ELSE Some(Head(q))]
pop(q) == IF q = <<>> THEN [queue |-> q, val |-> None]
          ELSE [queue |-> Tail(q), val |-> Some(Head(q))]
\* faulty variant: the inputs are copied out, not drained
pop_all_kept(q) == [queue |-> q, val |-> q]
pop_all(q) == [queue |-> <<>>, val |-> q]

ClearCall ==
    /\ input_queue' = clear(input_queue).queue
    /\ q_ret' = [op |-> "clear", before |-> input_queue,
                 after |-> clear(input_queue).queue, val |-> clear(input_queue).val]
    /\ cleared' = TRUE
    /\ UNCHANGED <<frame_vars, loop_vars, latest_data, mailbox_owner, close_requested, closed, closed_alive,
                   handle, thread, h_ret, obs_mailbox, n_inputs, pushed, popped, obs_close>>

PeekCall ==
    /\ input_queue' = peek(input_queue).queue
    /\ q_ret' = [op |-> "peek", before |-> input_queue,
                 after |-> peek(input_queue).queue, val |-> peek(input_queue).val]
    /\ UNCHANGED <<frame_vars, loop_vars, latest_data, mailbox_owner, close_requested, closed, closed_alive,
                   handle, thread, h_ret, obs_mailbox, n_inputs, pushed, popped, cleared,
                   obs_close>>

PopCall ==
    /\ input_queue' = pop(input_queue).queue
    /\ q_ret' = [op |-> "pop", before |-> input_queue,
                 after |-> pop(input_queue).queue, val |-> pop(input_queue).val]
    /\ popped' = popped \o pop(input_queue).val
    /\ UNCHANGED <<frame_vars, loop_vars, latest_data, mailbox_owner, close_requested, closed, closed_alive,
                   handle, thread, h_ret, obs_mailbox, n_inputs, pushed, cleared, obs_close>>

PopAllCall ==
    /\ input_queue' = pop_all(input_queue).queue
    /\ q_ret' = [op |-> "pop_all", before |-> input_queue,
                 after |-> pop_all(input_queue).queue, val |-> pop_all(input_queue).val]
    /\ popped' = popped \o pop_all(input_queue).val
    /\ UNCHANGED <<frame_vars, loop_vars, latest_data, mailbox_owner, close_requested, closed, closed_alive,
                   handle, thread, h_ret, obs_mailbox, n_inputs, pushed, cleared, obs_close>>

(* ---------------- the render thread: thread_function ---------------- *)

\* faulty variant: the take finds nothing
TakeYieldsNothing(slot) == None

\* Option::take on the locked slot: the value it returns, the slot it leaves
TakeYields(slot) == slot
\* faulty variant: the slot is read, not emptied
TakeLeavesKept(slot) == slot
TakeLeaves(slot) == None

\* faulty variant: the view of the tuple taken is not stored
AfterTakeTorn(local, got) ==
    IF got # None THEN [got[1] EXCEPT !.view = local.view] ELSE local

\* the local tuple after a take in the loop: replaced only by Some(tuple)
AfterTake(local, got) == IF got # None THEN got[1] ELSE local

\* the thread ends by a panic: its stack is unwound and its Arc of closed
\* dropped, closed itself is not stored
Panic ==
    /\ rt_pc' = "panicked"
    /\ closed_alive' = FALSE

\* WindowSettings::build: the window is created, or the expect panics
ThreadBuild ==
    /\ rt_pc = "build"
    /\ \/ /\ rt_pc' = "drain"
          /\ UNCHANGED closed_alive
       \/ Panic
    /\ UNCHANGED <<frame_vars, loop_vars, latest_data, mailbox_owner, close_requested, closed, input_queue,
                   handle, local_tuple, should_close, h_ret, obs_mailbox, obs_queue,
                   obs_close>>

\* faulty variant: the thread starts from the empty tuple whatever it took
unwrap_or_default_ignored(got) == EmptyTuple

\* Option::unwrap_or_default on the tuple taken: the tuple, or the default
\* (Vec::new(), None, None)
unwrap_or_default(got) == IF got # None THEN got[1] ELSE EmptyTuple

\* the initial latest_data.lock().take().unwrap_or_default()
ThreadDrain ==
    /\ rt_pc = "drain"
    /\ mailbox_owner = "none"
    /\ local_tuple' = unwrap_or_default(TakeYields(latest_data))
    /\ latest_data' = TakeLeaves(latest_data)
    /\ taken_idx' = IF slot_idx # 0 THEN Append(taken_idx, slot_idx) ELSE taken_idx
    /\ slot_idx' = 0
    /\ rt_pc' = "next"
    /\ UNCHANGED <<frame_vars, loop_vars, mailbox_owner, close_requested, closed, closed_alive, input_queue,
                   handle, should_close, h_ret, n_renders, calls, published, drawn, obs_queue,
                   obs_close>>

\* an event was handled while close_requested was already set
CountEvent ==
    events_after_close' =
        IF close_requested /\ events_after_close < MaxEventsSeen
        THEN events_after_close + 1 ELSE events_after_close

\* window.next() yields Event::Loop(Loop::Render): the texture buffer is
\* updated (loading an Image's texture may fail and panic), the frame is
\* drawn from the local tuple, the buffer decays
EventRender ==
    /\ rt_pc = "next"
    /\ ~should_close
    /\ \/ /\ rt_pc' = "check"
          /\ drawn' = Some(local_tuple)
          /\ UNCHANGED closed_alive
       \/ /\ HasImage(local_tuple.geoms)
          /\ Panic
          /\ UNCHANGED drawn
    /\ CountEvent
    /\ UNCHANGED <<frame_vars, loop_vars, latest_data, mailbox_owner, close_requested, closed, input_queue,
                   handle, local_tuple, should_close, h_ret, n_renders, calls, published, slot_idx,
                   taken_idx, obs_queue, n_closes, close_rets, n_joins>>

\* window.next() yields Event::Input: it is translated and pushed
EventInput(piston_input) ==
    /\ rt_pc = "next"
    /\ ~should_close
    /\ n_inputs < MaxInputs
    /\ n_inputs' = n_inputs + 1
    /\ input_queue' = push_back(input_queue, map_piston_input_to(piston_input))
    /\ pushed' = Append(pushed, map_piston_input_to(piston_input))
    /\ rt_pc' = "check"
    /\ CountEvent
    /\ UNCHANGED <<frame_vars, loop_vars, latest_data, mailbox_owner, close_requested, closed, closed_alive,
                   handle, local_tuple, should_close, h_ret, obs_mailbox, q_ret, popped,
                   cleared, n_closes, close_rets, n_joins>>

\* window.next() yields any other event
EventOther ==
    /\ rt_pc = "next"
    /\ ~should_close
    /\ rt_pc' = "check"
    /\ CountEvent
    /\ UNCHANGED <<frame_vars, loop_vars, shared, handle, local_tuple, should_close, h_ret, obs_mailbox,
                   obs_queue, n_closes, close_rets, n_joins>>

\* window.next() yields None: the window was told to close, or the backend
\* closed it (close button, escape key); the loop is left
EventNone ==
    /\ rt_pc = "next"
    /\ rt_pc' = "store_closed"
    /\ UNCHANGED <<frame_vars, loop_vars, shared, handle, local_tuple, should_close, h_ret, obs_mailbox,
                   obs_queue, obs_close>>

\* faulty variant: the loop never looks at the flag
SeesNoCloseRequest(flag) == FALSE

\* whether the loop asks the window to close after an event
SeesCloseRequest(flag) == flag

\* close_requested.load(): set_should_close, or go on to the take
LoopCheck ==
    /\ rt_pc = "check"
    /\ IF SeesCloseRequest(close_requested)
         THEN /\ should_close' = TRUE
              /\ rt_pc' = "next"
         ELSE /\ rt_pc' = "take"
              /\ UNCHANGED should_close
    /\ UNCHANGED <<frame_vars, loop_vars, shared, handle, local_tuple, h_ret, obs_mailbox, obs_queue, obs_close>>

\* latest_data.lock().take() in the loop: the local tuple is replaced when
\* the slot held one
LoopTake ==
    /\ rt_pc = "take"
    /\ mailbox_owner = "none"
    /\ local_tuple' = AfterTake(local_tuple, TakeYields(latest_data))
    /\ latest_data' = TakeLeaves(latest_data)
    /\ taken_idx' = IF slot_idx # 0 THEN Append(taken_idx, slot_idx) ELSE taken_idx
    /\ slot_idx' = 0
    /\ rt_pc' = "next"
    /\ UNCHANGED <<frame_vars, loop_vars, mailbox_owner, close_requested, closed, closed_alive, input_queue,
                   handle, should_close, h_ret, n_renders, calls, published, drawn, obs_queue,
                   obs_close>>

\* faulty variant: the loop is left without storing the flag
ThreadStoreClosedSkipped ==
    /\ rt_pc = "store_closed"
    /\ rt_pc' = "return"
    /\ UNCHANGED <<frame_vars, loop_vars, shared, handle, local_tuple, should_close, h_ret,
                   obs_mailbox, obs_queue, obs_close>>

\* closed.store(true) after the loop
ThreadStoreClosed ==
    /\ rt_pc = "store_closed"
    /\ closed' = TRUE
    /\ rt_pc' = "return"
    /\ UNCHANGED <<frame_vars, loop_vars, latest_data, mailbox_owner, close_requested, closed_alive, input_queue,
                   handle, local_tuple, should_close, h_ret, obs_mailbox, obs_queue,
                   obs_close>>

\* thread_function returns: its Arc of closed, the last one, is dropped
ThreadReturn ==
    /\ rt_pc = "return"
    /\ closed_alive' = FALSE
    /\ rt_pc' = "finished"
    /\ UNCHANGED <<frame_vars, loop_vars, latest_data, mailbox_owner, close_requested, closed, input_queue,
                   handle, local_tuple, should_close, h_ret, obs_mailbox, obs_queue,
                   obs_close>>

(* ---------------- the specification ---------------- *)

HandleStep ==
    \/ \E e \in EnvOutputs : RenderCall(e)
    \/ RenderLock
    \/ RenderPublish
    \/ CloseCall
    \/ CloseJoin
    \/ IsOpenCall

ConsumerStep ==
    \/ ClearCall
    \/ PeekCall
    \/ PopCall
    \/ PopAllCall

\* the render thread but for its input events
ThreadStep ==
    \/ ThreadBuild
    \/ ThreadDrain
    \/ EventRender
    \/ EventOther
    \/ EventNone
    \/ LoopCheck
    \/ LoopTake
    \/ ThreadStoreClosed
    \/ ThreadReturn

InputStep == \E i \in NativeInputs : EventInput(i)

\* Spec: the handle and the render thread around the mailbox and the
\* lifecycle flags.  An input event changes nothing of that state but the
\* position of the loop, as EventOther does; the pushes it causes are the
\* subject of QueueSpec.
Next == HandleStep \/ ThreadStep

Spec == Init /\ [][Next]_vars

\* QueueSpec: the render thread with its input events and the consumers of
\* the input provider.  The handle's calls reach the queue only by ending
\* the render loop, which EventNone and the panics also do.
NextQueue == ConsumerStep \/ InputStep \/ ThreadStep

QueueSpec == Init /\ [][NextQueue]_vars

\* the scheduling the liveness claims rest on: the render thread keeps
\* running, the backend keeps delivering events and redraw ticks among
\* them, the producer leaves its critical section, a join returns once the
\* thread has ended
FairSpec ==
    /\ Spec
    /\ WF_vars(ThreadStep)
    /\ SF_vars(EventRender)
    /\ WF_vars(RenderPublish)
    /\ WF_vars(CloseJoin)

(* ---------------- properties ---------------- *)

\* the render loop has been left, or the window was told to close: the
\* backend delivers no further event to the loop
LoopOver == should_close \/ rt_pc \in {"store_closed", "return", "finished", "panicked"}

\* a step in which the render thread takes from the mailbox
IsTake == rt_pc \in {"drain", "take"} /\ rt_pc' = "next"

\* the tuple the render thread last took
LastTaken == IF taken_idx = <<>> THEN EmptyTuple ELSE published[taken_idx[Len(taken_idx)]]

\* C1: the slot, when full, holds the tuple of the last completed publish,
\* so a take after publishes A and B yields B and A is never taken; every
\* take leaves the slot empty; a take on an empty slot leaves the local
\* tuple of the render loop unchanged
MailboxLastWriterWins ==
    /\ [](latest_data # None => latest_data = Some(published[Len(published)]))
    /\ [][IsTake =>
            /\ latest_data' = None
            /\ latest_data # None => local_tuple' = published[Len(published)]
            /\ (latest_data = None /\ rt_pc = "take") => local_tuple' = local_tuple]_vars

\* C1 witness: two publishes completed between two takes, the second take
\* yielded the later tuple and the earlier one was never taken
MailboxLastWriterWinsWitness ==
    /\ Len(published) = 3
    /\ published[2] # published[3]
    /\ taken_idx = <<1, 3>>
    /\ local_tuple = published[3]
    /\ latest_data = None

\* C2: the tuples taken by the render thread are a subsequence of the
\* tuples published (their indices strictly increase), and the local tuple
\* is, as a whole, the tuple of the last take
NoReorderNoTear ==
    /\ \A i \in 1..Len(taken_idx) : taken_idx[i] \in 1..Len(published)
    /\ \A i \in 1..Len(taken_idx) : \A j \in 1..Len(taken_idx) :
            i < j => taken_idx[i] < taken_idx[j]
    /\ rt_pc \notin {"build", "drain"} => local_tuple = LastTaken
    /\ drawn # None => \E n \in 1..Len(published) : drawn = Some(published[n])

\* C2 witness: every publish was taken, the last one differing from the one
\* before in all three parts, and drawn
NoReorderNoTearWitness ==
    /\ taken_idx = <<1, 2, 3>>
    /\ published[2].geoms # published[3].geoms
    /\ published[2].view # published[3].view
    /\ published[2].bg # published[3].bg
    /\ drawn = Some(published[3])

\* C3: while the tuple of publish n stays the last one published, the
\* render thread comes to draw it, unless the loop ends first
EventualDelivery ==
    \A n \in 1..(MaxRenders + 1) :
        (Len(published) = n) ~>
            (Len(published) # n \/ LoopOver \/ drawn = Some(published[n]))

\* C3 witness: the last of three publishes is drawn though an earlier one
\* was dropped, with the loop still running
EventualDeliveryWitness ==
    /\ Len(published) = 3
    /\ taken_idx = <<1, 3>>
    /\ drawn = Some(published[3])
    /\ ~LoopOver

\* a recorded render call has returned
Returned(i) == i < Len(calls) \/ h_pc \notin {"r_lock", "r_write"}

\* the last two render calls have returned, their scene source answered
\* both times and the two tuples are structurally equal
TwoEqualRenders ==
    /\ Len(calls) = 2
    /\ Returned(2)
    /\ calls[1].out.ok /\ calls[2].out.ok
    /\ NewTuple(calls[1].out) = NewTuple(calls[2].out)

\* C4 as stated: of two render calls with structurally equal output the
\* first writes the slot and the second does not (exactly one write)
DedupExactlyOneWrite ==
    TwoEqualRenders => (calls[1].wrote /\ ~calls[2].wrote)

\* C4 amended: the handle remembers the last published tuple; a render call
\* writes the slot exactly when its tuple differs from that tuple (at first
\* the empty tuple run() stored); so of two calls with equal output the
\* second never writes and there is at most one write
DedupAtMostOneWrite ==
    /\ last_tuple = published[Len(published)]
    /\ \A i \in 1..Len(calls) : Returned(i) =>
            (calls[i].wrote <=>
                (calls[i].out.ok /\ NewTuple(calls[i].out) # calls[i].before))
    /\ TwoEqualRenders => ~calls[2].wrote

\* C4 witness: two equal renders, the first wrote, the second was skipped
DedupWitness ==
    /\ TwoEqualRenders
    /\ calls[1].wrote
    /\ ~calls[2].wrote
    /\ Len(published) = 2

\* C5: once close() has set close_requested the loop handles at most one
\* further event, the window is told to close only on a close request, the
\* thread ends and the blocked close() returns after one join
CloseHandshakeTerminates ==
    /\ [](events_after_close <= 1)
    /\ [](should_close => close_requested)
    /\ close_requested ~> (rt_pc \in {"finished", "panicked"})
    /\ (h_pc = "join") ~> (h_pc = "idle" /\ n_joins = 1)

\* C5 witness: close() returned Ok after the loop handled one more event,
\* saw the request, told the window to close and the thread finished
CloseHandshakeWitness ==
    /\ close_rets = <<"Ok">>
    /\ events_after_close = 1
    /\ should_close
    /\ closed
    /\ rt_pc = "finished"

\* C6 as stated: two close() calls both return success
CloseTwiceBothOk ==
    Len(close_rets) = 2 => close_rets = <<"Ok", "Ok">>

\* C6 amended: the thread is joined at most once, by the first close();
\* every later close() finds no join handle, returns Ok and never waits;
\* the first returns Ok unless the thread panicked
CloseIdempotent ==
    /\ n_joins <= 1
    /\ \A i \in 2..Len(close_rets) : close_rets[i] = "Ok"
    /\ h_pc = "join" => n_closes = 1
    /\ Len(close_rets) >= 1 => (n_joins = 1 /\ ~join_handle)
    /\ (Len(close_rets) >= 1 /\ rt_pc # "panicked") => close_rets[1] = "Ok"

\* C6 witness: two close() calls returned Ok with one join
CloseIdempotentWitness ==
    /\ close_rets = <<"Ok", "Ok">>
    /\ n_joins = 1
    /\ ~join_handle

\* C7: the first close() returns CloseCouldNotJoinRenderThread exactly when
\* the render thread panicked; the join is not repeated by a later close()
JoinFailureReported ==
    /\ Len(close_rets) >= 1 =>
            (close_rets[1] = "CloseCouldNotJoinRenderThread" <=> rt_pc = "panicked")
    /\ (Len(close_rets) >= 1 /\ rt_pc = "panicked") => n_joins = 1

\* C7 witness: the thread panicked loading an Image's texture, close()
\* reported it and a second close() returned Ok without joining
JoinFailureWitness ==
    /\ rt_pc = "panicked"
    /\ HasImage(local_tuple.geoms)
    /\ close_rets = <<"CloseCouldNotJoinRenderThread", "Ok">>
    /\ n_joins = 1

\* C8 as stated: is_open() returns false exactly when the flag can be
\* observed and reads true, and true otherwise
IsOpenUnlessObservedClosed ==
    h_ret.op = "is_open" =>
        (h_ret.val = "false" <=> (h_ret.seen[1] /\ h_ret.seen[2]))

\* C8 amended: is_open() returns true exactly when the flag can still be
\* observed and reads false; it returns false when the flag reads true and
\* when the flag is gone (the render thread has ended)
IsOpenIffObservedOpen ==
    h_ret.op = "is_open" =>
        (h_ret.val = "true" <=> (h_ret.seen[1] /\ ~h_ret.seen[2]))

\* C8 witness: is_open() was called after the thread dropped the flag and
\* returned false
IsOpenWitness ==
    /\ h_ret.op = "is_open"
    /\ ~h_ret.seen[1]
    /\ h_ret.val = "false"

\* C9: without a clear call, the inputs pushed are the inputs popped
\* followed by the inputs still queued, in the order of the pushes; every
\* native input event caused one push, of its translation
LosslessFifo ==
    /\ ~cleared => pushed = popped \o input_queue
    /\ Len(pushed) = n_inputs
    /\ \A i \in 1..Len(pushed) :
            \E n \in NativeInputs : pushed[i] = map_piston_input_to(n)

\* C9 witness: three inputs, not all alike, were pushed and all returned,
\* the first by pop and the others by pop_all
LosslessFifoWitness ==
    /\ ~cleared
    /\ Len(pushed) = 3
    /\ pushed[1] # pushed[2]
    /\ popped = pushed
    /\ q_ret.op = "pop_all"
    /\ Len(q_ret.val) = 2

\* C10: pop_all returns the whole queue in order and leaves it empty; pop
\* returns and removes only the front; peek returns the front and changes
\* nothing; clear leaves the queue empty
QueueOperations ==
    /\ q_ret.op = "pop_all" => (q_ret.val = q_ret.before /\ q_ret.after = <<>>)
    /\ q_ret.op = "pop" =>
            IF q_ret.before = <<>>
            THEN q_ret.val = None /\ q_ret.after = <<>>
            ELSE /\ q_ret.val = Some(q_ret.before[1])
                 /\ q_ret.before = q_ret.val \o q_ret.after
    /\ q_ret.op = "peek" =>
            /\ q_ret.after = q_ret.before
            /\ q_ret.val = IF q_ret.before = <<>> THEN None ELSE Some(q_ret.before[1])
    /\ q_ret.op = "clear" => q_ret.after = <<>>

\* C10 witness: E1, E2, E3 were pushed and pop_all returned them in order
QueueOperationsWitness ==
    /\ q_ret.op = "pop_all"
    /\ Len(q_ret.val) = 3
    /\ q_ret.val = pushed
    /\ q_ret.val[1] # q_ret.val[2]
    /\ input_queue = <<>>

(* ---------------- the render thread's frames and its texture buffer ---------------- *)

\* the sources before the first one that has no entry yet (all of them when
\* every source has one or gets one earlier in the sequence)
RECURSIVE BeforeFirstLoad(_, _)
BeforeFirstLoad(tb, sources) ==
    IF sources = <<>> THEN <<>>
    ELSE IF Head(sources) \notin DOMAIN tb.buffered_textures THEN <<>>
    ELSE <<Head(sources)>> \o BeforeFirstLoad(tb, Tail(sources))

\* the last load_or_mark_use call of a frame: its source, the counter before
\* (None when the source had no entry) and the counter after
LastMark(tb, sources) ==
    IF sources = <<>> THEN None
    ELSE LET src == sources[Len(sources)]
             pre == MarkAll(tb, SubSeq(sources, 1, Len(sources) - 1))
         IN  Some([source |-> src,
                   before |-> IF src \in DOMAIN pre.buffered_textures
                              THEN Some(pre.buffered_textures[src]) ELSE None,
                   after |-> load_or_mark_use(pre, src).buffered_textures[src]])

\* the sources whose texture update_texture_buffer has loaded, in the order
\* of the loads: load_or_mark_use loads in its else branch
RECURSIVE LoaderCalls(_, _)
LoaderCalls(tb, sources) ==
    IF sources = <<>> THEN <<>>
    ELSE (IF contains_key(tb, Head(sources)) THEN <<>> ELSE <<Head(sources)>>)
         \o LoaderCalls(load_or_mark_use(tb, Head(sources)), Tail(sources))

\* how often a source occurs in a sequence of sources
Occurrences(sources, s) == Cardinality({i \in 1..Len(sources) : sources[i] = s})

\* the textures the draw calls looked up, found or not
LookedUp(draws) ==
    {draws[i].texture : i \in {j \in 1..Len(draws) : draws[j].prim \in {"image", "panic"}}}

\* faulty variant: the texture buffer also decays on an input event
HandlerOpsDecayOnInput(event) ==
    CASE event = "render" -> <<"update_texture_buffer", "draw_2d", "decrease_and_drop">>
      [] event = "input" -> <<"push_back", "decrease_and_drop">>
      [] OTHER -> <<>>
\* thread_function, the match on the event: the calls each arm makes, in
\* order
HandlerOps(event) ==
    CASE event = "render" -> <<"update_texture_buffer", "draw_2d", "decrease_and_drop">>
      [] event = "input" -> <<"push_back">>
      [] OTHER -> <<>>

\* how often a call occurs among the calls made
CallsOf(ops, op) == Cardinality({i \in 1..Len(ops) : ops[i] = op})

\* the record of an event handled: the calls made are the first `made` of
\* the handler (all of them unless one panicked), `drew` frames were
\* completed; the counts stop at MaxFramesCounted
Handled(obs, event, made, drew) ==
    LET ops == SubSeq(HandlerOps(event), 1, made)
    IN  [event |-> event,
         ops |-> ops,
         frames |-> Min(obs.frames + drew, MaxFramesCounted),
         decays |-> Min(obs.decays + CallsOf(ops, "decrease_and_drop"), MaxFramesCounted)]

\* thread_function, Event::Loop(Loop::Render): update_texture_buffer, then
\* render inside draw_2d, then decrease_and_drop. loads = FALSE is a frame
\* whose first texture load fails (panic in load_or_mark_use)
FrameRender(geometry_2ds, loads) ==
    LET sources == TopLevelSources(geometry_2ds)
        marked == IF loads THEN sources ELSE BeforeFirstLoad(texture_buffer, sources)
        primed == MarkAll(texture_buffer, marked)
        draws == UpToPanic(RenderAll(DefaultDrawState, Identity, geometry_2ds, primed))
        named == {sources[i] : i \in 1..Len(sources)}
        refs == [s \in TextureSources |-> Min(tex_refs[s] + Occurrences(marked, s), 2)]
        uses == [s \in TextureSources |-> Occurrences(marked, s)]
        tried == IF loads THEN sources ELSE SubSeq(sources, 1, Len(marked) + 1)
        loaded == [s \in TextureSources |->
                      Occurrences(LoaderCalls(texture_buffer, tried), s)]
    IN  /\ frame_obs.result \in {"none", "drawn"}
        /\ loads \/ marked # sources
        /\ \A s \in OnceSources : tex_refs[s] = 0 \/ s \notin named
        /\ \A s \in DOMAIN primed.buffered_textures : primed.buffered_textures[s] <= MaxCounter
        /\ tex_refs' = refs
        /\ tex_always' = [s \in TextureSources |-> tex_always[s] /\ s \in named]
        /\ IF ~loads
           THEN /\ texture_buffer' = primed
                /\ frame_obs' = [result |-> "load_failed", unprimed |-> {},
                                 mark |-> LastMark(texture_buffer, marked), uses |-> uses,
                                 loaded |-> loaded]
                /\ event_obs' = Handled(event_obs, "render", 1, 0)
                /\ tex_decays' = [s \in TextureSources |->
                                     IF refs[s] = 1 THEN tex_decays[s] ELSE 0]
           ELSE IF Panicked(draws)
           THEN /\ texture_buffer' = primed
                /\ frame_obs' = [result |-> "texture_missing",
                                 unprimed |-> LookedUp(draws) \ named,
                                 mark |-> LastMark(texture_buffer, marked), uses |-> uses,
                                 loaded |-> loaded]
                /\ event_obs' = Handled(event_obs, "render", 2, 0)
                /\ tex_decays' = [s \in TextureSources |->
                                     IF refs[s] = 1 THEN tex_decays[s] ELSE 0]
           ELSE /\ texture_buffer' = decrease_and_drop(primed)
                /\ frame_obs' = [result |-> "drawn",
                                 unprimed |-> LookedUp(draws) \ named,
                                 mark |-> LastMark(texture_buffer, marked), uses |-> uses,
                                 loaded |-> loaded]
                /\ event_obs' = Handled(event_obs, "render", Len(HandlerOps("render")), 1)
                /\ tex_decays' = [s \in TextureSources |->
                                     IF refs[s] = 1
                                     THEN Min(tex_decays[s] + 1, StartingUses) ELSE 0]
        /\ UNCHANGED <<run_vars, render_out, locks, lk_pc>>

\* the render thread drawing frame after frame, its scene replaced at will
\* between frames
NextFrames == \E geometry_2ds \in FrameScenes, loads \in BOOLEAN : FrameRender(geometry_2ds, loads)
FrameSpec == Init /\ [][NextFrames]_vars

(* ---------------- properties of the texture buffer ---------------- *)

\* C11: every Image a frame draws, at the top level or inside Groups, was
\* handed to load_or_mark_use earlier in that frame, so the lookup of its
\* texture never fails
PrimedBeforeDrawn ==
    /\ frame_obs.result # "texture_missing"
    /\ frame_obs.unprimed = {}

LeaseExpiry ==
    \A s \in TextureSources :
        tex_refs[s] = 1 =>
            (s \in DOMAIN texture_buffer.buffered_textures <=> tex_decays[s] < StartingUses)

\* C13 witness: a.png, used once, is gone after the StartingUses-th call
LeaseExpiryWitness ==
    /\ tex_refs["a.png"] = 1
    /\ tex_decays["a.png"] = StartingUses
    /\ "a.png" \notin DOMAIN texture_buffer.buffered_textures

SourceFailureKeepsState ==
    /\ [][(n_renders' = n_renders + 1 /\ ~calls'[Len(calls')].out.ok)
              => /\ h_ret' = Ret("render", "RenderingEnvironmentError")
                 /\ h_pc' = "idle"
                 /\ UNCHANGED <<latest_data, mailbox_owner, last_tuple, published, slot_idx>>]_vars
    /\ [](\A i \in 1..Len(calls) : ~calls[i].out.ok => ~calls[i].wrote)
    /\ [](h_pc = "idle" => last_tuple = published[Len(published)])

\* C15 witness: the scene source failed after a tuple had been published
SourceFailureWitness ==
    /\ calls # <<>>
    /\ ~calls[Len(calls)].out.ok
    /\ h_ret = Ret("render", "RenderingEnvironmentError")
    /\ Len(published) > 1
    /\ last_tuple = published[Len(published)]
    /\ last_tuple # EmptyTuple

(* ---------------- one call of PistonVisualiser::render ---------------- *)

\* PistonVisualiser::render: clear to the background colour if there is one,
\* choose draw state and transformation, draw every geometry. A behaviour
\* holds one call, its arguments chosen freely
Render(geometry_2ds, preferred_view, background_color, ctx_vp_rect, tb) ==
    LET view == ViewOfRender(preferred_view, ctx_vp_rect)
        draws == UpToPanic(RenderAll(view.draw_state, view.transform, geometry_2ds, tb))
    IN  /\ render_out.result = "none"
        /\ render_out' =
               [result |-> IF Panicked(draws) THEN "panicked" ELSE "drawn",
                geometry_2ds |-> geometry_2ds,
                preferred_view |-> preferred_view,
                ctx_vp_rect |-> ctx_vp_rect,
                cleared |-> background_color,
                fit |-> view.fit,
                draw_state |-> view.draw_state,
                transform |-> view.transform,
                draws |-> draws]
        /\ UNCHANGED <<run_vars, texture_buffer, tex_refs, tex_decays, tex_always, frame_obs,
                       loop_vars>>

NextRender ==
    \E geometry_2ds \in RenderScenes, preferred_view \in PreferredViews,
       background_color \in {None, Some("black")}, ctx_vp_rect \in SurfaceRects,
       tb \in RenderBuffers :
        Render(geometry_2ds, preferred_view, background_color, ctx_vp_rect, tb)
RenderSpec == Init /\ [][NextRender]_vars

(* ---------------- properties of the view computation ---------------- *)

\* the arguments of the call made: the preferred viewport's size, the
\* modification ("" when there is no preference) and the surface size
OutSize == IF render_out.preferred_view # None
           THEN render_out.preferred_view[1][1].size ELSE <<0, 0>>
OutMod == IF render_out.preferred_view # None THEN render_out.preferred_view[1][2] ELSE ""
OutSurface == <<render_out.ctx_vp_rect[3], render_out.ctx_vp_rect[4]>>
Called == render_out.result # "none"

\* a scaling by (x, y) about the centre of the window viewport
ScalingAboutCentre(x, y) ==
    Composition("KeepAspectRatio",
                <<Translation(<<0, 0>>), Scale(x, y), Translation(<<0, 0>>)>>)

\* C16: with an aspect-keeping modification and positive sizes, the fitted
\* size (w, h) lies within the surface (sw, sh), has the aspect ratio of the
\* viewport, touches the surface in width or in height, and the
\* transformation scales by (w / sw, h / sh) about the centre
AspectFitWithinSurface ==
    (Called /\ OutMod \in KeepAspectMods /\ OutSize[1] > 0 /\ OutSize[2] > 0) =>
        LET w == render_out.fit.w
            h == render_out.fit.h
            sw == Num(OutSurface[1])
            sh == Num(OutSurface[2])
        IN  /\ IsFinite(w) /\ IsFinite(h)
            /\ FGt(w, Num(0)) /\ FGt(h, Num(0))
            /\ ~FGt(w, sw) /\ ~FGt(h, sh)
            /\ FDiv(w, h) = FDiv(Num(OutSize[1]), Num(OutSize[2]))
            /\ w = sw \/ h = sh
            /\ render_out.transform = ScalingAboutCentre(FDiv(w, sw), FDiv(h, sh))

\* C16 witness: a viewport wider than the surface was fitted to the width
AspectFitWitness ==
    /\ Called /\ OutMod = "KeepAspectRatio"
    /\ OutSize = <<3, 2>> /\ OutSurface = <<600, 800>>
    /\ render_out.fit.w = Num(600) /\ render_out.fit.h = Num(400)

\* C17: the viewport 4 x 2 on the surface 800 x 800 is fitted to
\* (800, 400), scaled about the centre, and clipped, if at all, to the
\* rectangle at (0, 200) of size (800, 400)
WideOnSquareSurface ==
    (Called /\ OutMod \in KeepAspectMods /\ OutSize = <<4, 2>> /\ OutSurface = <<800, 800>>) =>
        /\ render_out.fit.w = Num(800) /\ render_out.fit.h = Num(400)
        /\ render_out.transform = ScalingAboutCentre(Num(1), Frac(1, 2))
        /\ OutMod = "KeepAspectRatioAndScissorRemains"
               => render_out.draw_state = ScissorDrawState(<<0, 200, 800, 400>>)

\* C17 witness: that call was made with the clipping modification
WideOnSquareWitness ==
    /\ Called /\ OutMod = "KeepAspectRatioAndScissorRemains"
    /\ OutSize = <<4, 2>> /\ OutSurface = <<800, 800>>
    /\ render_out.draw_state.scissor = Some(<<0, 200, 800, 400>>)

\* the parts of C18 that hold as stated: no preference and LooseAspectRatio
\* give the identity and no clip, KeepAspectRatio gives no clip
ClipOnlyWhenAsked ==
    /\ OutMod \in {"", "LooseAspectRatio"}
           => render_out.transform = Identity /\ render_out.draw_state = DefaultDrawState
    /\ OutMod = "KeepAspectRatio" => render_out.draw_state = DefaultDrawState
    /\ OutMod = "KeepAspectRatioAndScissorRemains" => render_out.draw_state.scissor # None

\* C18 as stated: the modification selects transformation and clip, and the
\* clip rectangle has the size (w, h) and the origin ((sw - w) / 2,
\* (sh - h) / 2) and lies inside the surface
ClipExactlyFitted ==
    Called =>
        /\ ClipOnlyWhenAsked
        /\ (OutMod = "KeepAspectRatioAndScissorRemains" /\ OutSize[1] > 0 /\ OutSize[2] > 0) =>
               LET r == render_out.draw_state.scissor[1]
                   w == render_out.fit.w
                   h == render_out.fit.h
               IN  /\ Num(r[3]) = w /\ Num(r[4]) = h
                   /\ Num(r[1]) = FDiv(FSub(Num(OutSurface[1]), w), Num(2))
                   /\ Num(r[2]) = FDiv(FSub(Num(OutSurface[2]), h), Num(2))
                   /\ r[1] + r[3] <= OutSurface[1] /\ r[2] + r[4] <= OutSurface[2]

\* whether the integer i is the real x with its fraction cut off
CutOff(i, x) == ~FGt(Num(i), x) /\ FGt(Num(i + 1), x)

\* C18 amended: as above, but the clip rectangle has the size and the origin
\* cut down to whole pixels
ClipFittedToPixels ==
    Called =>
        /\ ClipOnlyWhenAsked
        /\ (OutMod = "KeepAspectRatioAndScissorRemains" /\ OutSize[1] > 0 /\ OutSize[2] > 0) =>
               LET r == render_out.draw_state.scissor[1]
                   w == render_out.fit.w
                   h == render_out.fit.h
               IN  /\ CutOff(r[3], w) /\ CutOff(r[4], h)
                   /\ CutOff(r[1], FDiv(FSub(Num(OutSurface[1]), w), Num(2)))
                   /\ CutOff(r[2], FDiv(FSub(Num(OutSurface[2]), h), Num(2)))
                   /\ r[1] + r[3] <= OutSurface[1] /\ r[2] + r[4] <= OutSurface[2]

\* C18 witness: a clip rectangle for a fitted height that is no whole number
ClipFittedWitness ==
    /\ Called /\ OutMod = "KeepAspectRatioAndScissorRemains"
    /\ OutSize = <<3, 2>> /\ OutSurface = <<800, 800>>
    /\ render_out.fit.h = Frac(1600, 3)
    /\ render_out.draw_state.scissor = Some(<<0, 133, 800, 533>>)

\* C19: with an aspect-keeping modification and a viewport whose width or
\* height is zero or negative, nothing is divided by zero and the
\* transformation is the identity
DegenerateViewportFallsBack ==
    (Called /\ OutMod \in KeepAspectMods /\ (OutSize[1] <= 0 \/ OutSize[2] <= 0)) =>
        /\ ~render_out.fit.zero_division
        /\ render_out.transform = Identity

(* ---------------- properties of drawing groups ---------------- *)

\* the leaves of a scene, depth first and left to right
RECURSIVE Leaves(_)
Leaves(geometry_2ds) ==
    IF geometry_2ds = <<>> THEN <<>>
    ELSE (IF Head(geometry_2ds).kind = "Group"
          THEN Leaves(Head(geometry_2ds).geometries) ELSE <<Head(geometry_2ds)>>)
         \o Leaves(Tail(geometry_2ds))

\* the call made drew with this texture buffer
OutBuffer ==
    CHOOSE tb \in RenderBuffers :
        render_out.draws = UpToPanic(RenderAll(render_out.draw_state, render_out.transform,
                                               render_out.geometry_2ds, tb))

\* C20: the draw calls of a scene are those of its leaves, depth first and
\* left to right, each drawn as it would be at the top level: with the
\* draw state of the call and the transformation of the view appended to
\* its chain; an empty Group draws nothing
GroupsDrawnDepthFirst ==
    Called =>
        /\ render_out.draws =
               UpToPanic(RenderAll(render_out.draw_state, render_out.transform,
                                   Leaves(render_out.geometry_2ds), OutBuffer))
        /\ \A i \in 1..Len(render_out.draws) :
               render_out.draws[i].transformations = <<render_out.transform>>
        /\ render_out.result = "drawn" =>
               Len(render_out.draws) = Len(Leaves(render_out.geometry_2ds))
        /\ render_out.geometry_2ds = NestedScene =>
               /\ Len(render_out.draws) = 2
               /\ render_out.draws[1].prim = "ellipse"
               /\ render_out.draws[2].prim = "line"
               /\ render_out.draws[2].draw_state = render_out.draw_state

\* C20 witness: the scene group{point, group{line}, group{}} was drawn under
\* a clipping view: the point, then the line, both with the view's
\* transformation
GroupsDrawnWitness ==
    /\ Called /\ render_out.geometry_2ds = NestedScene
    /\ OutMod = "KeepAspectRatioAndScissorRemains" /\ OutSize = <<4, 2>>
    /\ Len(render_out.draws) = 2
    /\ render_out.draws[1].prim = "ellipse" /\ render_out.draws[2].prim = "line"
    /\ render_out.draws[2].transformations = <<render_out.transform>>
    /\ render_out.draws[2].draw_state.scissor # None

(* ---------------- properties of the loop iteration ---------------- *)

\* C21: after each event the loop reads close_requested: when it is set the
\* window is told to close and nothing is taken (slot and local tuple stay
\* as they are); when it is not, the loop takes from the slot, which it
\* leaves empty, and replaces its local tuple as a whole if and only if the
\* slot held one
CloseCheckThenTake ==
    /\ [][(rt_pc = "check" /\ rt_pc' # "check") =>
            IF close_requested
            THEN /\ should_close' /\ rt_pc' = "next"
                 /\ UNCHANGED <<latest_data, local_tuple, taken_idx>>
            ELSE /\ rt_pc' = "take"
                 /\ UNCHANGED <<should_close, latest_data, local_tuple>>]_vars
    /\ [][(rt_pc = "take" /\ rt_pc' # "take") =>
            /\ rt_pc' = "next"
            /\ latest_data' = None
            /\ local_tuple' = IF latest_data # None THEN latest_data[1] ELSE local_tuple
            /\ UNCHANGED should_close]_vars
    /\ [][rt_pc' = "check" => rt_pc \in {"next", "check"}]_vars
    /\ [][(rt_pc = "next" /\ rt_pc' \notin {"next", "store_closed", "panicked"})
            => rt_pc' = "check"]_vars

\* C21 witness: the loop saw the close request and left a published tuple
\* in the slot, its local tuple being an older one
CloseCheckWitness ==
    /\ should_close /\ close_requested /\ rt_pc = "next"
    /\ latest_data # None
    /\ Len(published) > 1
    /\ latest_data[1] # local_tuple

\* thread_function, Event::Input as the frames see it: the input is
\* translated and pushed; the texture buffer is touched only as far as the
\* handler's calls say
FrameInput(piston_input) ==
    LET ops == HandlerOps("input")
    IN  /\ frame_obs.result \in {"none", "drawn"}
        /\ n_inputs < MaxInputs
        /\ n_inputs' = n_inputs + 1
        /\ input_queue' = push_back(input_queue, map_piston_input_to(piston_input))
        /\ pushed' = Append(pushed, map_piston_input_to(piston_input))
        /\ texture_buffer' = IF CallsOf(ops, "decrease_and_drop") > 0
                              THEN decrease_and_drop(texture_buffer) ELSE texture_buffer
        /\ event_obs' = Handled(event_obs, "input", Len(ops), 0)
        /\ UNCHANGED <<latest_data, mailbox_owner, close_requested, closed, closed_alive,
                       handle, thread, h_ret, obs_mailbox, q_ret, popped, cleared, obs_close,
                       tex_refs, tex_decays, tex_always, frame_obs, render_out, locks, lk_pc>>

\* thread_function, the arm `_ => {}` as the frames see it
FrameOther ==
    LET ops == HandlerOps("other")
    IN  /\ frame_obs.result \in {"none", "drawn"}
        /\ texture_buffer' = IF CallsOf(ops, "decrease_and_drop") > 0
                              THEN decrease_and_drop(texture_buffer) ELSE texture_buffer
        /\ event_obs' = Handled(event_obs, "other", Len(ops), 0)
        /\ UNCHANGED <<run_vars, tex_refs, tex_decays, tex_always, frame_obs, render_out,
                       locks, lk_pc>>

\* the scenes and the inputs of the runs that mix redraw ticks with other
\* events
EventScenes == {<<>>, <<ImageOf("a.png")>>, <<GroupOf(<<ImageOf("a.png")>>)>>}

\* the render loop taking events of every kind from the window
NextEvents ==
    \/ \E geometry_2ds \in EventScenes, loads \in BOOLEAN : FrameRender(geometry_2ds, loads)
    \/ \E piston_input \in {CHOOSE n \in NativeInputs : TRUE} : FrameInput(piston_input)
    \/ FrameOther
EventsSpec == Init /\ [][NextEvents]_vars

\* C22: a redraw tick calls update_texture_buffer, then draws, then calls
\* decrease_and_drop, each once and in this order (a tick that panics stops
\* inside that sequence); an input event or any other event makes none of
\* these calls and leaves the texture buffer as it was; so the
\* decrease_and_drop calls made are as many as the frames drawn
DecayOncePerFrame ==
    /\ [](event_obs.decays = event_obs.frames)
    /\ [](event_obs.event = "render" =>
            /\ event_obs.ops =
                 SubSeq(<<"update_texture_buffer", "draw_2d", "decrease_and_drop">>,
                        1, Len(event_obs.ops))
            /\ frame_obs.result = "drawn" => Len(event_obs.ops) = 3
            /\ frame_obs.result = "texture_missing" => Len(event_obs.ops) = 2
            /\ frame_obs.result = "load_failed" => Len(event_obs.ops) = 1)
    /\ [](event_obs.event \in {"input", "other"} =>
            \A op \in {"update_texture_buffer", "draw_2d", "decrease_and_drop"} :
                CallsOf(event_obs.ops, op) = 0)
    /\ [][event_obs'.event # "render" => texture_buffer' = texture_buffer]_vars
    /\ [][event_obs'.frames # event_obs.frames =>
            /\ event_obs'.event = "render"
            /\ frame_obs'.result = "drawn"]_vars

\* C22 witness: two frames were drawn and decayed, a texture is buffered,
\* and the last event handled was an input
DecayOncePerFrameWitness ==
    /\ event_obs.frames = 2
    /\ event_obs.decays = 2
    /\ event_obs.event = "input"
    /\ n_inputs > 0
    /\ "a.png" \in DOMAIN texture_buffer.buffered_textures
    /\ texture_buffer.buffered_textures["a.png"] < StartingUses

\* C23 as stated: however the render loop was left, by window.next()
\* yielding None or by a panic of the Render arm, closed was stored true
LoopExitStoresClosed ==
    (\/ rt_pc \in {"return", "finished"}
     \/ rt_pc = "panicked" /\ HasImage(local_tuple.geoms)) => closed

\* C23 amended: closed is stored true when the loop is left because
\* window.next() yielded None; a panic stores nothing, it drops the flag
\* with the thread; either way is_open() is false once the thread has
\* ended, and once false it is never true again
ClosedOnceEnded ==
    /\ [](rt_pc \in {"return", "finished"} => closed)
    /\ [](rt_pc = "panicked" => ~closed /\ ~closed_alive)
    /\ [](rt_pc \in {"finished", "panicked"} => ~IsOpen(closed_alive, closed))
    /\ [][(h_ret' # h_ret /\ h_ret'.op = "is_open" /\ rt_pc \in {"finished", "panicked"})
            => h_ret'.val = "false"]_vars
    /\ [][~IsOpen(closed_alive, closed) => ~IsOpen(closed_alive', closed')]_vars

\* C23 witness: the Render arm panicked, closed was never stored, and
\* is_open() called after that returned false
ClosedOnceEndedWitness ==
    /\ rt_pc = "panicked"
    /\ HasImage(local_tuple.geoms)
    /\ ~closed
    /\ h_ret.op = "is_open"
    /\ h_ret.val = "false"
    /\ h_ret.seen = <<FALSE, FALSE>>

InitialDrain ==
    /\ [][(rt_pc = "drain" /\ rt_pc' # "drain") =>
            /\ rt_pc' = "next"
            /\ latest_data' = None
            /\ local_tuple' = IF latest_data = None THEN EmptyTuple ELSE latest_data[1]
            /\ local_tuple' = published[Len(published)]]_vars
    /\ [][rt_pc' = "drain" => rt_pc \in {"build", "drain"}]_vars
    /\ [](rt_pc \in {"build", "drain"} =>
            /\ drawn = None
            /\ n_inputs = 0
            /\ taken_idx = <<>>
            /\ local_tuple = EmptyTuple)
    /\ [](\/ latest_data = Some(published[Len(published)])
          \/ latest_data = None /\ local_tuple = published[Len(published)])

\* C25 witness: one tuple was published before the initial drain, which
\* took it, and another one after it, which a take of the loop picked up
InitialDrainWitness ==
    /\ taken_idx = <<2, 3>>
    /\ Len(published) = 3
    /\ published[2] # published[3]
    /\ local_tuple = published[3]
    /\ latest_data = None
    /\ rt_pc = "next"

\* C26 as stated: the render thread is never at its mailbox read while the
\* producer is inside its critical section, that is, it never has to wait
\* for the producer
NeverWaitsForProducer ==
    ~(rt_pc \in {"drain", "take"} /\ mailbox_owner = "handle")

\* C26 amended: the mailbox read locks latest_data and so waits while the
\* producer is inside its critical section; the producer holds the lock
\* only there and leaves it without waiting for anything, so the read goes
\* through; with the lock free the read goes through at once, whether the
\* slot holds a tuple or not
ReadWaitsOnlyForGuard ==
    /\ [](mailbox_owner = "handle" <=> h_pc = "r_write")
    /\ [][(rt_pc \in {"drain", "take"} /\ rt_pc' # rt_pc) =>
            /\ mailbox_owner = "none"
            /\ rt_pc' = "next"]_vars
    /\ []((rt_pc \in {"drain", "take"} /\ mailbox_owner = "none") => ENABLED ThreadStep)
    /\ (mailbox_owner = "handle") ~> (mailbox_owner = "none")
    /\ (rt_pc = "take") ~> (rt_pc = "next")

\* C26 witness: the thread stands at its mailbox read, the slot is empty,
\* and the producer is inside its critical section with the lock held
ReadWaitsWitness ==
    /\ rt_pc = "take"
    /\ latest_data = None
    /\ mailbox_owner = "handle"
    /\ h_pc = "r_write"

\* C27: after the initial drain, whenever nobody is inside a critical
\* section of latest_data: a tuple in the slot is the handle's last
\* published tuple, and with the slot empty the thread's local tuple is;
\* and a render call that returned Ok, having written or skipped, leaves
\* the handle's last published tuple equal to the tuple it was given
SlotOrLocalIsLastPublished ==
    /\ (rt_pc \notin {"build", "drain"} /\ mailbox_owner = "none") =>
            /\ latest_data # None => latest_data[1] = last_tuple
            /\ latest_data = None => local_tuple = last_tuple
    /\ (h_pc = "idle" /\ h_ret = Ret("render", "Ok")) =>
            last_tuple = NewTuple(calls[Len(calls)].out)

\* C27 witness: the second render call was skipped as equal to the first,
\* which the thread had already taken: the slot is empty and the thread's
\* tuple is the one published
SkipHidesNothingWitness ==
    /\ Len(calls) = 2
    /\ calls[1].wrote
    /\ ~calls[2].wrote
    /\ h_ret = Ret("render", "Ok")
    /\ h_pc = "idle"
    /\ latest_data = None
    /\ rt_pc = "next"
    /\ local_tuple = NewTuple(calls[2].out)
    /\ local_tuple # EmptyTuple

(* ---------------- the locks ---------------- *)

\* the statements that lock a mutex: who locks which mutex, where it stands
\* before lock() returns, while the guard lives, and after the statement.
\* The producer locks latest_data in render_two_dimensional; a consumer
\* locks input_queue in clear, peek, pop and pop_all; the render thread
\* locks latest_data for the initial drain and for the take of the loop,
\* and input_queue for the push_back of the Input arm
LockSites ==
    {[c |-> "producer", l |-> "mailbox", at |-> "want_mailbox", in |-> "in_mailbox", to |-> "idle"],
     [c |-> "consumer", l |-> "queue", at |-> "want_queue", in |-> "in_queue", to |-> "idle"],
     [c |-> "thread", l |-> "mailbox", at |-> "drain_want", in |-> "drain_in", to |-> "wait_event"],
     [c |-> "thread", l |-> "queue", at |-> "input_want", in |-> "input_in", to |-> "check"],
     [c |-> "thread", l |-> "mailbox", at |-> "take_want", in |-> "take_in", to |-> "wait_event"]}

\* what a step between lock operations leaves alone
LkRest ==
    UNCHANGED <<frame_vars, event_obs, latest_data, mailbox_owner, closed, closed_alive,
                input_queue, h_pc, last_tuple, new_tuple, rt_pc, local_tuple, h_ret,
                obs_mailbox, obs_queue, obs_close>>

\* a context moves on
LkMove(c, from, to) ==
    /\ lk_pc[c] = from
    /\ lk_pc' = [lk_pc EXCEPT ![c] = to]

\* Mutex::lock: returns once the mutex is free, and holds it
LkAcquire(site) ==
    /\ LkMove(site.c, site.at, site.in)
    /\ locks[site.l] = "none"
    /\ locks' = [locks EXCEPT ![site.l] = site.c]
    /\ UNCHANGED <<close_requested, join_handle, should_close>>
    /\ LkRest

\* faulty variant: the guard is kept beyond its statement
DropTemporaryKept(holder) == holder

\* the MutexGuard, a temporary of the statement that locked, is dropped at
\* the end of that statement
DropTemporary(holder) == "none"

\* the statement that locked ends
LkRelease(site) ==
    /\ LkMove(site.c, site.in, site.to)
    /\ locks' = [locks EXCEPT ![site.l] = DropTemporary(locks[site.l])]
    /\ UNCHANGED <<close_requested, join_handle, should_close>>
    /\ LkRest

\* a call that locks begins: render_two_dimensional with a tuple to
\* publish, or an operation of the input provider
LkCall(c, to) ==
    /\ LkMove(c, "idle", to)
    /\ UNCHANGED <<locks, close_requested, join_handle, should_close>>
    /\ LkRest

\* close(): take the join handle, store close_requested, join
LkCloseStart ==
    /\ join_handle
    /\ LkMove("producer", "idle", "join")
    /\ join_handle' = FALSE
    /\ close_requested' = TRUE
    /\ UNCHANGED <<locks, should_close>>
    /\ LkRest
LkCloseJoin ==
    /\ lk_pc["thread"] \in {"ended", "panicked"}
    /\ LkMove("producer", "join", "idle")
    /\ UNCHANGED <<locks, close_requested, join_handle, should_close>>
    /\ LkRest

\* thread_function: the window is built
LkBuild ==
    /\ LkMove("thread", "build", "drain_want")
    /\ UNCHANGED <<locks, close_requested, join_handle, should_close>>
    /\ LkRest

\* window.next() returns: an event whose arm locks nothing (the Render arm
\* and the `_` arm), an input event, whose arm locks input_queue for the
\* push_back, or None, upon which the thread stores closed and ends
LkEvent ==
    /\ \/ ~should_close /\ LkMove("thread", "wait_event", "check")
       \/ ~should_close /\ LkMove("thread", "wait_event", "input_want")
       \/ LkMove("thread", "wait_event", "ended")
    /\ UNCHANGED <<locks, close_requested, join_handle, should_close>>
    /\ LkRest

\* faulty variant: the take of the loop can panic with its guard alive
PanicSitesInside ==
    {[c |-> "thread", at |-> "build"], [c |-> "thread", at |-> "wait_event"],
     [c |-> "thread", at |-> "take_in"]}

\* where the code can panic: the expect on the window's build, and in the
\* Render arm the panic! of a failed texture load and the expect on a
\* texture missing from the buffer
PanicSites ==
    {[c |-> "thread", at |-> "build"], [c |-> "thread", at |-> "wait_event"]}

\* a context panics and unwinds: a mutex whose guard it holds is poisoned
LkPanic(c, at) ==
    /\ at = "wait_event" => ~should_close
    /\ LkMove(c, at, "panicked")
    /\ locks' = [l \in DOMAIN locks |-> IF locks[l] = c THEN "poisoned" ELSE locks[l]]
    /\ UNCHANGED <<close_requested, join_handle, should_close>>
    /\ LkRest

\* faulty variant: the producer unwraps the lock result like the others
LockFailureUnwrapped(c) == "panicked"

\* what a context does with the PoisonError of lock(): the render thread
\* and the input provider panic in expect, render_two_dimensional maps it
\* to LockingFailedInternally and returns it with `?`
LockFailure(c) == IF c = "producer" THEN "locking_failed_internally" ELSE "panicked"

\* lock() on a poisoned mutex returns Err
LkLockFails(site) ==
    /\ locks[site.l] = "poisoned"
    /\ LkMove(site.c, site.at, LockFailure(site.c))
    /\ UNCHANGED <<locks, close_requested, join_handle, should_close>>
    /\ LkRest

\* after the event: set_should_close on a close request, else lock
\* latest_data for the take and the assignments of the if-let
LkCheck ==
    /\ IF close_requested
         THEN /\ LkMove("thread", "check", "wait_event")
              /\ should_close' = TRUE
         ELSE /\ LkMove("thread", "check", "take_want")
              /\ UNCHANGED should_close
    /\ UNCHANGED <<locks, close_requested, join_handle>>
    /\ LkRest

\* the steps of one context
LockStepOf(c) ==
    \/ \E site \in LockSites : site.c = c /\ LkAcquire(site)
    \/ \E site \in LockSites : site.c = c /\ LkRelease(site)
    \/ c = "producer" /\ LkCall(c, "want_mailbox")
    \/ c = "consumer" /\ LkCall(c, "want_queue")
    \/ c = "producer" /\ LkCloseStart
    \/ c = "producer" /\ LkCloseJoin
    \/ c = "thread" /\ LkBuild
    \/ c = "thread" /\ LkEvent
    \/ c = "thread" /\ LkCheck
    \/ \E site \in PanicSites : site.c = c /\ LkPanic(site.c, site.at)

NextLocks == \E c \in {"producer", "consumer", "thread"} : LockStepOf(c)
LockSpec == Init /\ [][NextLocks]_vars

\* the same steps, and a holder of a lock that panics with its guard alive
\* (no statement of lib.rs inside a critical section does), after which
\* lock() fails
PoisonSpec ==
    Init /\ [][\/ NextLocks
               \/ \E site \in LockSites : LkPanic(site.c, site.in)
               \/ \E site \in LockSites : LkLockFails(site)]_vars

\* C28: no context holds the lock of latest_data and the lock of
\* input_queue together; the producer holds no lock while it joins, the
\* render thread holds none while it waits for the next window event or
\* after it has ended; and whoever waits for a lock waits for a holder that
\* is itself not blocked, so the locks cannot deadlock
NoLockAcrossBlocking ==
    LET Contexts == {"producer", "consumer", "thread"}
        Holding(c) == {l \in {"mailbox", "queue"} : locks[l] = c}
        Wanted(c) == {site.l : site \in {x \in LockSites : x.c = c /\ x.at = lk_pc[c]}}
    IN  /\ \A c \in Contexts : Cardinality(Holding(c)) <= 1
        /\ lk_pc["producer"] \in {"join", "idle", "want_mailbox"} => Holding("producer") = {}
        /\ lk_pc["thread"] \in {"wait_event", "ended", "panicked", "build", "check"}
             => Holding("thread") = {}
        /\ lk_pc["consumer"] \in {"idle", "want_queue"} => Holding("consumer") = {}
        /\ \A c \in Contexts : Holding(c) # {} => Wanted(c) = {}
        /\ \A c \in Contexts : \A l \in Wanted(c) :
                \/ ENABLED LockStepOf(c)
                \/ /\ locks[l] \in Contexts \ {c}
                   /\ ENABLED LockStepOf(locks[l])

\* C28 witness: the producer joins while a consumer holds the queue lock
\* that the render thread waits for
LocksWitness ==
    /\ lk_pc["producer"] = "join"
    /\ lk_pc["thread"] = "input_want"
    /\ locks["queue"] = "consumer"
    /\ locks["mailbox"] = "none"

(* ---------------- properties of the texture lease ---------------- *)

\* C29: decrease_and_drop lowers the counter of every entry by one, of the
\* entries the frame referenced and of the others alike, removes the
\* entries that reach zero and no other entry; so after every drawn frame
\* each source's counter is its counter after priming less one, an entry
\* exists exactly when that is above zero, and between frames no entry has
\* the counter zero
DecayLowersEveryCounter ==
    /\ [](\A s \in DOMAIN texture_buffer.buffered_textures :
            texture_buffer.buffered_textures[s] >= 1)
    /\ [](LET after == decrease_and_drop(texture_buffer).buffered_textures
              before == texture_buffer.buffered_textures
          IN  /\ DOMAIN after = {s \in DOMAIN before : before[s] > 1}
              /\ \A s \in DOMAIN after : after[s] = before[s] - 1)
    /\ [][frame_obs'.result = "drawn" =>
            \A s \in TextureSources :
                LET uses == frame_obs'.uses[s]
                    primed == IF s \in DOMAIN texture_buffer.buffered_textures
                              THEN texture_buffer.buffered_textures[s] + uses
                              ELSE IF uses > 0 THEN StartingUses + uses - 1 ELSE 0
                IN  /\ s \in DOMAIN texture_buffer'.buffered_textures <=> primed > 1
                    /\ primed > 1 => texture_buffer'.buffered_textures[s] = primed - 1]_vars
    /\ [][frame_obs'.result # "drawn" =>
            \A s \in DOMAIN texture_buffer.buffered_textures :
                /\ s \in DOMAIN texture_buffer'.buffered_textures
                /\ texture_buffer'.buffered_textures[s] >= texture_buffer.buffered_textures[s]]_vars

\* C29 witness: the last frame drawn named a.png and not b.png; b.png, loaded
\* by one earlier frame, has decayed to its last use while a.png, named
\* again and again, has not
DecayWitness ==
    /\ frame_obs.result = "drawn"
    /\ frame_obs.uses["a.png"] = 1
    /\ frame_obs.uses["b.png"] = 0
    /\ DOMAIN texture_buffer.buffered_textures = {"a.png", "b.png"}
    /\ texture_buffer.buffered_textures["b.png"] = 1
    /\ texture_buffer.buffered_textures["a.png"] > 1

NoPanicInsideLock ==
    /\ [](\A l \in DOMAIN locks : locks[l] # "poisoned")
    /\ [](\A site \in LockSites : ~ENABLED LkLockFails(site))
    /\ [](lk_pc["producer"] \notin {"panicked", "locking_failed_internally"})
    /\ [](lk_pc["consumer"] # "panicked")
    /\ [][\A c \in DOMAIN lk_pc :
            (lk_pc'[c] = "panicked" /\ lk_pc[c] # "panicked") =>
                /\ c = "thread"
                /\ lk_pc[c] \in {"build", "wait_event"}
                /\ \A l \in DOMAIN locks : locks[l] # c
                /\ locks' = locks]_vars

\* C36 witness: the render thread has panicked while the producer was
\* inside its critical section and a consumer inside the queue's
NoPanicInsideWitness ==
    /\ lk_pc["thread"] = "panicked"
    /\ locks["mailbox"] = "producer"
    /\ locks["queue"] = "consumer"

(* ---------------- the shapes of render_geometry_2d ---------------- *)

\* faulty variant: the point is drawn as a circle of radius 1 about its
\* position
PointRectCentred(transformed_position, s) ==
    <<FSub(FMul(FDiv(FSub(Num(transformed_position[1]), Num(-1)), Num(2)), Num(s[1])), Num(1)),
      FSub(FMul(FDiv(FSub(Num(transformed_position[2]), Num(-1)), Num(2)), Num(s[2])), Num(1)),
      Num(2), Num(2)>>

\* render_geometry_2d, Point: the rectangle [x, y, w, h] handed to
\* Ellipse::draw, s being the draw size of the context's viewport
PointRect(transformed_position, s) ==
    <<FMul(FDiv(FSub(Num(transformed_position[1]), Num(-1)), Num(2)), Num(s[1])),
      FMul(FDiv(FSub(Num(transformed_position[2]), Num(-1)), Num(2)), Num(s[2])),
      Num(1), Num(1)>>

\* render_geometry_2d, the arms of Point, Polyline, Rectangle, Circle and
\* Ellipse: the draw calls with their geometric arguments. The rectangles
\* are [x, y, w, h]. `points.len() - 1` of a Polyline is computed in usize:
\* with no point it panics (debug build) or wraps to usize::MAX, upon which
\* points[0] is out of range and panics
ShapeDraws(draw_state, draw_size, geometry_2d) ==
    CASE geometry_2d.kind = "Point" ->
            <<[prim |-> "ellipse", rect |-> PointRect(geometry_2d.position, draw_size),
               draw_state |-> DefaultDrawState, matrix |-> "context.transform"]>>
      [] geometry_2d.kind = "Polyline" ->
            IF Len(geometry_2d.points) - 1 < 0
            THEN <<[prim |-> "panic", draw_state |-> draw_state, matrix |-> "transformations"]>>
            ELSE [index \in 1..(Len(geometry_2d.points) - 1) |->
                     [prim |-> "line",
                      from |-> geometry_2d.points[index],
                      to |-> geometry_2d.points[index + 1],
                      draw_state |-> draw_state, matrix |-> "transformations"]]
      [] geometry_2d.kind = "Rectangle" ->
            <<[prim |-> "rectangle",
               rect |-> <<FSub(Num(geometry_2d.center_position[1]),
                               FDiv(Num(geometry_2d.size[1]), Num(2))),
                          FSub(Num(geometry_2d.center_position[2]),
                               FDiv(Num(geometry_2d.size[2]), Num(2))),
                          Num(geometry_2d.size[1]), Num(geometry_2d.size[2])>>,
               draw_state |-> draw_state, matrix |-> "transformations"]>>
      [] geometry_2d.kind = "Circle" ->
            <<[prim |-> "ellipse",
               rect |-> <<FSub(Num(geometry_2d.center_position[1]), Num(geometry_2d.radius)),
                          FSub(Num(geometry_2d.center_position[2]), Num(geometry_2d.radius)),
                          FMul(Num(2), Num(geometry_2d.radius)),
                          FMul(Num(2), Num(geometry_2d.radius))>>,
               draw_state |-> draw_state, matrix |-> "transformations"]>>
      [] geometry_2d.kind = "Ellipse" ->
            <<[prim |-> "ellipse",
               rect |-> <<FSub(Num(geometry_2d.center_position[1]), Num(geometry_2d.size[1])),
                          FSub(Num(geometry_2d.center_position[2]), Num(geometry_2d.size[2])),
                          Num(geometry_2d.size[1]), Num(geometry_2d.size[2])>>,
               draw_state |-> draw_state, matrix |-> "transformations"]>>

\* the geometries drawn one by one: Points at positions within [-1, 1]
\* that carry no transformation (position.transform(transformations) is the
\* position),
\* Polylines of no to three points, and Rectangles, Circles and Ellipses
\* about two centres
Shapes ==
    {[kind |-> "Point", position |-> <<x, y>>, transformations |-> <<>>] :
        x \in {-1, 0, 1}, y \in {-1, 0, 1}}
    \cup {[kind |-> "Polyline", points |-> [i \in 1..n |-> <<i, i * i>>]] : n \in 0..3}
    \cup {[kind |-> k, center_position |-> c, size |-> sz] :
            k \in {"Rectangle", "Ellipse"}, c \in {<<0, 0>>, <<5, 3>>},
            sz \in {<<2, 4>>, <<3, 1>>}}
    \cup {[kind |-> "Circle", center_position |-> c, radius |-> r] :
            c \in {<<0, 0>>, <<5, 3>>}, r \in {1, 2}}

\* one call of render_geometry_2d on a shape; a Point is also drawn as
\* the only leaf below two Groups. A behaviour holds one call
DrawShape(draw_state, draw_size, geometry_2d) ==
    /\ render_out.result = "none"
    /\ render_out' =
           [result |-> "shape",
            geometry_2d |-> geometry_2d,
            draw_state |-> draw_state,
            draw_size |-> draw_size,
            draws |-> ShapeDraws(draw_state, draw_size, geometry_2d),
            nested |-> IF geometry_2d.kind = "Point"
                       THEN render_geometry_2d(draw_state,
                                GroupOf(<<GroupOf(<<geometry_2d>>)>>),
                                TextureBufferNew(StartingUses))
                       ELSE <<>>]
    /\ UNCHANGED <<run_vars, texture_buffer, tex_refs, tex_decays, tex_always, frame_obs,
                   loop_vars>>

ShapeSpec ==
    Init /\ [][\E draw_state \in {DefaultDrawState, ScissorDrawState(<<0, 100, 800, 600>>)},
                  draw_size \in {<<800, 800>>, <<800, 600>>, <<400, 600>>},
                  geometry_2d \in Shapes :
                    DrawShape(draw_state, draw_size, geometry_2d)]_vars

(* ---------------- properties of the shapes ---------------- *)

\* C33 as stated: a Point is drawn as a circle of radius 1 about its mapped
\* position, that is into the square of side 2 centred there, with the
\* default draw state
PointIsUnitCircle ==
    (render_out.result = "shape" /\ render_out.geometry_2d.kind = "Point") =>
        LET p == render_out.geometry_2d.position
            s == render_out.draw_size
            d == render_out.draws[1]
        IN  /\ d.draw_state = DefaultDrawState
            /\ d.rect = <<Frac((p[1] + 1) * s[1] - 2, 2), Frac((p[2] + 1) * s[2] - 2, 2),
                          Num(2), Num(2)>>

\* C33 amended: a Point is one ellipse drawn into the rectangle of width 1
\* and height 1 whose corner (not centre) is the position mapped to
\* ((x + 1) / 2 * draw_width, (y + 1) / 2 * draw_height), a circle of
\* diameter 1; it is drawn with the context's transform and the default
\* draw state whatever draw state is in force, also below Groups
PointIsUnitBox ==
    (render_out.result = "shape" /\ render_out.geometry_2d.kind = "Point") =>
        LET p == render_out.geometry_2d.position
            s == render_out.draw_size
            d == render_out.draws
        IN  /\ Len(d) = 1
            /\ d[1].prim = "ellipse"
            /\ d[1].rect = <<Frac((p[1] + 1) * s[1], 2), Frac((p[2] + 1) * s[2], 2),
                             Num(1), Num(1)>>
            /\ d[1].draw_state = DefaultDrawState
            /\ d[1].draw_state.scissor = None
            /\ d[1].matrix = "context.transform"
            /\ Len(render_out.nested) = 1
            /\ render_out.nested[1].draw_state = DefaultDrawState

\* C33 witness: a Point off the centre was drawn, alone and below Groups,
\* while a scissor was in force
PointWitness ==
    /\ render_out.result = "shape"
    /\ render_out.geometry_2d.kind = "Point"
    /\ render_out.geometry_2d.position = <<1, -1>>
    /\ render_out.draw_size = <<800, 600>>
    /\ render_out.draw_state.scissor # None
    /\ render_out.nested # <<>>

\* C34: an Ellipse is drawn into the rectangle of its width and height
\* centred on its centre, as a Circle is into the square of side 2 * radius
\* and a Rectangle into its own
EllipseCentred ==
    (render_out.result = "shape"
     /\ render_out.geometry_2d.kind \in {"Ellipse", "Circle", "Rectangle"}) =>
        LET g == render_out.geometry_2d
            c == g.center_position
            sz == IF g.kind = "Circle" THEN <<2 * g.radius, 2 * g.radius>> ELSE g.size
            r == render_out.draws[1].rect
        IN  /\ r[3] = Num(sz[1])
            /\ r[4] = Num(sz[2])
            /\ r[1] = Frac(2 * c[1] - sz[1], 2)
            /\ r[2] = Frac(2 * c[2] - sz[2], 2)

\* C35: a Polyline of n points draws the n - 1 segments from point i to
\* point i + 1, none when n is 0 or 1, and never fails
PolylineSegments ==
    (render_out.result = "shape" /\ render_out.geometry_2d.kind = "Polyline") =>
        LET points == render_out.geometry_2d.points
            d == render_out.draws
        IN  /\ Len(d) = Max(Len(points) - 1, 0)
            /\ \A i \in 1..Len(d) :
                    /\ d[i].prim = "line"
                    /\ d[i].from = points[i]
                    /\ d[i].to = points[i + 1]

====
